---- MODULE Spec2Model ----
(***************************************************************************)
(* A model of the Arrow C Data Interface bridge of polars-arrow            *)
(* (crates/polars-arrow/src/ffi/array.rs) and of DictionaryArray           *)
(* (crates/polars-arrow/src/array/dictionary/mod.rs).                      *)
(*                                                                         *)
(* The module holds several components, each with its own variables and    *)
(* its own specification:                                                  *)
(*   SpecRelease    export of a native array and the release protocol      *)
(*   SpecImport     the import ownership handle (Arc<ArrowArray>)          *)
(*   SpecArc        concurrent drops of clones of the ownership handle     *)
(*   SpecDict       DictionaryArray construction, slicing, validity, split *)
(*   SpecBuffer     buffer / buffer_known_len on a foreign struct          *)
(*   SpecRoundTrip  import(export(A)) for native arrays A                  *)
(*   SpecChild      child / dictionary on a foreign struct                 *)
(*   SpecExport     the struct ArrowArray::new builds                      *)
(*   SpecCast       casts of numeric and list columns (polars-core)        *)
(*   SpecMalformed  validity / bitmap on structs with arbitrary fields     *)
(*   SpecFlags      find_flags on an expression (polars-plan)              *)
(* A specification leaves the variables of the other components at their   *)
(* initial values.                                                         *)
(***************************************************************************)
EXTENDS Integers, Sequences, FiniteSets, TLC

VARIABLES
    \* ---- export and release (SpecRelease)
    tree,       \* the native array's shape: nodes, parent, edge kind
    exported,   \* TRUE once ArrowArray::new has built the struct tree
    release,    \* release[n]: the struct's release field is Some(c_release_array)
    torn,       \* torn[n]: how often n's PrivateData was reclaimed (Box::from_raw)
    freed,      \* freed[n]: how often the box holding struct n was deallocated
    attempts,   \* attempts[n]: releases attempted on n by its holder
    \* ---- import ownership handle (SpecImport)
    imported,   \* "no", or how the foreign struct came: "set" / "none" release field
    strong,     \* strong count of the Arc<ArrowArray> of InternalArrowArray
    holders,    \* live clones of the handle, by what holds them
    rootRelease,        \* the foreign root struct's release field is set
    releaseCalls,       \* how often the foreign release callback was invoked
    childReleaseCalls,  \* how often the importer released a child / dictionary struct
    lastOut,    \* outcome of the last accessor call on the handle
    \* ---- concurrent drops of the handle (SpecArc)
    arcStrong,  \* the atomic strong count
    arcRelease, \* the foreign struct's release field is set
    arcCalls,   \* how often the foreign release callback was invoked
    held,       \* held[t]: clones of the handle thread t holds
    tpc,        \* tpc[t]: "run", or "dec" after fetch_sub and before acting on it
    saw,        \* saw[t]: the count fetch_sub returned to t
    lastDec,    \* the thread whose fetch_sub took the count to zero (0: none yet)
    releasedBy, \* the thread that ran the release callback (0: none yet)
    liveAtRelease,  \* clones still held when the release callback ran
    \* ---- DictionaryArray (SpecDict)
    darr,       \* the DictionaryArray at hand (present = FALSE: none)
    checked,    \* darr descends from a checked constructor
    halves,     \* the two arrays the last split returned (<<>>: none)
    call,       \* the last operation and its arguments
    res,        \* its result: "ok", "type_mismatch", "out_of_bounds", "panic"
    \* ---- buffers of an imported struct (SpecBuffer)
    fstruct,    \* the foreign ArrowArray struct and the memory it points to
    bcall,      \* the buffer call made on it: op, index, length
    bout,       \* what the call returned
    vout,       \* the bitmap a validity or bitmap call returned
    \* ---- export then import (SpecRoundTrip)
    native,     \* the native array A
    estruct,    \* the struct ArrowArray::new built from it
    back,       \* what try_from made of that struct
    \* ---- children and dictionary of an imported struct (SpecChild)
    cstruct,    \* the foreign struct and the type descriptor it came with
    ccall,      \* the call made on it: child(index) or dictionary()
    cout,       \* the view (struct, type descriptor) the call returned
    \* ---- casts of a column (SpecCast)
    col,        \* the column: dtype, chunks, sorted flag
    castCall,   \* the cast called on it: op, target dtype, options
    castOut,    \* what the cast returned
    \* ---- expansion flags of an expression (SpecFlags)
    fexpr,      \* the nodes of the expression, in the order they are visited
    fpos,       \* how many of them find_flags has visited
    flags,      \* the flags collected so far
    fres        \* "none", "run", or what find_flags returned: "ok" / "err"

relVars == <<tree, exported, release, torn, freed, attempts>>
impVars == <<imported, strong, holders, rootRelease, releaseCalls, childReleaseCalls, lastOut>>
arcVars == <<arcStrong, arcRelease, arcCalls, held, tpc, saw, lastDec, releasedBy, liveAtRelease>>
dictVars == <<darr, checked, halves, call, res>>
bufVars == <<fstruct, bcall, bout, vout>>
rtVars == <<native, estruct, back>>
childVars == <<cstruct, ccall, cout>>
castVars == <<col, castCall, castOut>>
flagVars == <<fexpr, fpos, flags, fres>>
vars == <<relVars, impVars, arcVars, dictVars, bufVars, rtVars, childVars, castVars, flagVars>>

(***************************************************************************)
(* Bounds of the model.                                                    *)
(***************************************************************************)
MaxNodes == 3
MaxAttempts == 2
MaxClones == 3
NThreads == 2
MaxHeld == 2
MaxKeys == 2
MaxValuesLen == 3
MaxLen == 2
MaxOffset == 2
MaxSize == 2
MaxBuffers == 3
MaxGarbage == 2
MaxStride == 2
MaxElem == 2
MaxPool == 2
MaxChildren == 2
MaxChunks == 2
MaxRows == 2
MaxExprNodes == 3
MaxIndexes == 2
UsizeBits == 8

(***************************************************************************)
(* Generic helpers.                                                        *)
(***************************************************************************)
\* `x as usize` of a signed field, on words of UsizeBits bits
UsizeModulus == 2 ^ UsizeBits
i64_as_usize(x) == IF x < 0 THEN x + UsizeModulus ELSE x

RECURSIVE SeqOfSet(_)
SeqOfSet(S) ==
    IF S = {} THEN <<>>
    ELSE LET m == CHOOSE x \in S : \A y \in S : x <= y
         IN  <<m>> \o SeqOfSet(S \ {m})

(***************************************************************************)
(* EXPORT AND RELEASE                                                      *)
(*                                                                         *)
(* A native array is a tree: node 1 is the array itself, every other node  *)
(* is a child array or the dictionary (values) array of its parent.        *)
(* ArrowArray::new builds one struct per node; each struct owns a          *)
(* PrivateData allocation, and each child / dictionary struct is boxed     *)
(* and reachable from its parent's PrivateData by a raw pointer.           *)
(***************************************************************************)
NoTree == [n |-> 0, parent |-> <<>>, edge |-> <<>>]

\* The shapes offset_buffers_children_dictionary can report: any number of
\* children, at most one dictionary per node.
TreeShapes ==
    { t \in UNION { [n : {k}, parent : [1..k -> 0..(k-1)],
                     edge : [1..k -> {"root", "child", "dict"}]] : k \in 1..MaxNodes } :
        /\ t.parent[1] = 0 /\ t.edge[1] = "root"
        /\ \A i \in 2..t.n : t.parent[i] \in 1..(i-1) /\ t.edge[i] # "root"
        /\ \A i, j \in 2..t.n :
              (i # j /\ t.parent[i] = t.parent[j] /\ t.edge[i] = "dict") => t.edge[j] # "dict" }

Nodes == 1..tree.n

\* PrivateData.children_ptr of node n, in order
children_ptr(n) == SeqOfSet({ c \in Nodes : tree.parent[c] = n /\ tree.edge[c] = "child" })

\* PrivateData.dictionary_ptr of node n, as a sequence of zero or one pointer
dictionary_ptr(n) == SeqOfSet({ c \in Nodes : tree.parent[c] = n /\ tree.edge[c] = "dict" })

RelFrame == UNCHANGED <<impVars, arcVars, dictVars, bufVars, rtVars, childVars, castVars, flagVars>>
ImpFrame == UNCHANGED <<relVars, arcVars, dictVars, bufVars, rtVars, childVars, castVars, flagVars>>
ArcFrame == UNCHANGED <<relVars, impVars, dictVars, bufVars, rtVars, childVars, castVars, flagVars>>
DictFrame == UNCHANGED <<relVars, impVars, arcVars, bufVars, rtVars, childVars, castVars, flagVars>>
BufFrame == UNCHANGED <<relVars, impVars, arcVars, dictVars, rtVars, childVars, castVars, flagVars>>
RtFrame == UNCHANGED <<relVars, impVars, arcVars, dictVars, bufVars, childVars, castVars, flagVars>>
ChildFrame == UNCHANGED <<relVars, impVars, arcVars, dictVars, bufVars, rtVars, castVars, flagVars>>
CastFrame == UNCHANGED <<relVars, impVars, arcVars, dictVars, bufVars, rtVars, childVars, flagVars>>
FlagFrame == UNCHANGED <<relVars, impVars, arcVars, dictVars, bufVars, rtVars, childVars, castVars>>

RECURSIVE Subtree(_)
Subtree(n) == {n} \cup UNION { Subtree(c) : c \in { c \in Nodes : tree.parent[c] = n } }

\* The memory the release protocol acts on.
RelState == [release |-> release, torn |-> torn, freed |-> freed]

RECURSIVE c_release_array(_, _)
RECURSIVE DropArrowArray(_, _)
RECURSIVE DropBoxes(_, _)

\* let _ = Box::from_raw(ptr): the boxed struct is dropped (Drop for ArrowArray
\* runs) and its memory is freed, for each pointer of `ptrs` in order.
DropBoxes(s, ptrs) ==
    IF ptrs = <<>> THEN s
    ELSE LET c  == Head(ptrs)
             s1 == DropArrowArray(s, c)
         IN  DropBoxes([s1 EXCEPT !.freed[c] = @ + 1], Tail(ptrs))

\* A mutant of c_release_array that forgets `array.release = None`.
c_release_array_keeps_pointer(s, n) ==
    LET s1 == [s EXCEPT !.torn[n] = @ + 1]
        s2 == DropBoxes(s1, children_ptr(n))
    IN  DropBoxes(s2, dictionary_ptr(n))

\* A mutant of c_release_array that forgets the dictionary struct.
c_release_array_skips_dictionary(s, n) ==
    LET s1 == [s EXCEPT !.torn[n] = @ + 1]
        s2 == DropBoxes(s1, children_ptr(n))
    IN  [s2 EXCEPT !.release[n] = FALSE]

\* unsafe extern "C" fn c_release_array(array): reclaim private_data, drop every
\* child box and the dictionary box, clear the release pointer.
c_release_array(s, n) ==
    LET s1 == [s EXCEPT !.torn[n] = @ + 1]
        s2 == DropBoxes(s1, children_ptr(n))
        s3 == DropBoxes(s2, dictionary_ptr(n))
    IN  [s3 EXCEPT !.release[n] = FALSE]

\* impl Drop for ArrowArray: match self.release { None => (), Some(release) => release(self) }
DropArrowArray(s, n) ==
    IF s.release[n] THEN c_release_array(s, n) ELSE s

InitRelease ==
    /\ tree = NoTree
    /\ exported = FALSE
    /\ release = <<>>
    /\ torn = <<>>
    /\ freed = <<>>
    /\ attempts = <<>>

\* ArrowArray::new(array): one struct per node of the array, each with
\* release: Some(c_release_array) and a fresh PrivateData; children and the
\* dictionary are exported recursively and boxed.
Export(t) ==
    /\ ~exported
    /\ tree' = t
    /\ exported' = TRUE
    /\ release' = [n \in 1..t.n |-> TRUE]
    /\ torn' = [n \in 1..t.n |-> 0]
    /\ freed' = [n \in 1..t.n |-> 0]
    /\ attempts' = [n \in 1..t.n |-> 0]
    /\ RelFrame

\* The holder drops the wrapper of the exported struct (node 1); nothing stops
\* a second drop through another code path.
DropWrapper ==
    /\ exported
    /\ attempts[1] < MaxAttempts
    /\ LET s == DropArrowArray(RelState, 1)
       IN  /\ release' = s.release
           /\ torn' = s.torn
           /\ freed' = s.freed
    /\ attempts' = [attempts EXCEPT ![1] = @ + 1]
    /\ UNCHANGED <<tree, exported>>
    /\ RelFrame

\* The holder of struct n (the root, or a child / dictionary struct reached
\* through its parent while still allocated) invokes the callback stored in the
\* struct's release field. A released struct stores none, so the attempt calls
\* nothing.
InvokeRelease(n) ==
    /\ exported
    /\ freed[n] = 0
    /\ attempts[n] < MaxAttempts
    /\ LET s == IF release[n] THEN c_release_array(RelState, n) ELSE RelState
       IN  /\ release' = s.release
           /\ torn' = s.torn
           /\ freed' = s.freed
    /\ attempts' = [attempts EXCEPT ![n] = @ + 1]
    /\ UNCHANGED <<tree, exported>>
    /\ RelFrame

NextRelease ==
    \/ \E t \in TreeShapes : Export(t)
    \/ DropWrapper
    \/ \E n \in Nodes : InvokeRelease(n)


(***************************************************************************)
(* IMPORT OWNERSHIP HANDLE                                                 *)
(*                                                                         *)
(* InternalArrowArray { array: Arc<ArrowArray>, dtype: Arc<ArrowDataType> }*)
(* is Clone. owner() clones it for every buffer and bitmap, child() and    *)
(* dictionary() clone it into the view they return. The foreign struct is  *)
(* dropped, and its release callback invoked, when the last clone goes.    *)
(***************************************************************************)
HolderKinds == {"root", "buffer", "bitmap", "view"}

TotalHolders == holders["root"] + holders["buffer"] + holders["bitmap"] + holders["view"]

ImpState == [strong |-> strong, rootRelease |-> rootRelease,
             releaseCalls |-> releaseCalls, childReleaseCalls |-> childReleaseCalls]

\* A mutant of ArcDrop: the struct is dropped with every clone, as if each
\* clone owned the ArrowArray by value.
ArcDropEveryClone(s) ==
    LET s1 == [s EXCEPT !.strong = @ - 1]
    IN  IF s1.rootRelease
        THEN [s1 EXCEPT !.releaseCalls = @ + 1, !.rootRelease = FALSE]
        ELSE s1

\* Drop of one clone of the handle: the Arc's count goes down by one; the
\* clone that takes it to zero drops the ArrowArray, whose Drop invokes the
\* release callback if the field is set; the callback clears the field.
ArcDrop(s) ==
    LET s1 == [s EXCEPT !.strong = @ - 1]
    IN  IF s1.strong = 0 /\ s1.rootRelease
        THEN [s1 EXCEPT !.releaseCalls = @ + 1, !.rootRelease = FALSE]
        ELSE s1

\* Clone of the handle (#[derive(Clone)]): one more strong reference.
ArcClone(s) == [s EXCEPT !.strong = @ + 1]

\* Drop of an ArrowArrayChild { array: &ArrowArray, dtype, parent }: `array`
\* is a shared reference and has no destructor; `parent` is a clone.
DropArrowArrayChild(s) == ArcDrop(s)

SetImpState(s) ==
    /\ strong' = s.strong
    /\ rootRelease' = s.rootRelease
    /\ releaseCalls' = s.releaseCalls
    /\ childReleaseCalls' = s.childReleaseCalls

InitImport ==
    /\ imported = "no"
    /\ strong = 0
    /\ holders = [k \in HolderKinds |-> 0]
    /\ rootRelease = FALSE
    /\ releaseCalls = 0
    /\ childReleaseCalls = 0
    /\ lastOut = "none"

\* InternalArrowArray::new(array, dtype): Arc::new(array). The foreign struct
\* carries a release callback, unless it is an ArrowArray::empty() nobody filled.
ImportNew(hasRelease) ==
    /\ imported = "no"
    /\ imported' = IF hasRelease THEN "set" ELSE "none"
    /\ strong' = 1
    /\ holders' = [holders EXCEPT !["root"] = 1]
    /\ rootRelease' = hasRelease
    /\ lastOut' = "new"
    /\ UNCHANGED <<releaseCalls, childReleaseCalls>>
    /\ ImpFrame

\* Some InternalArrowArray or ArrowArrayChild is at hand to call an accessor on.
HandleAtHand == holders["root"] + holders["view"] >= 1

\* buffer(index) / buffer_known_len(index, len): self.owner() clones the
\* handle; the zero-copy path stores the clone in the returned buffer's
\* storage, every other path (length 0, failed pointer check, copy of a
\* misaligned buffer) drops it on return.
TakeBuffer(out) ==
    /\ imported # "no" /\ HandleAtHand
    /\ TotalHolders < MaxClones
    /\ LET s1 == ArcClone(ImpState)
       IN  IF out = "zero_copy"
           THEN /\ SetImpState(s1)
                /\ holders' = [holders EXCEPT !["buffer"] = @ + 1]
           ELSE /\ SetImpState(ArcDrop(s1))
                /\ UNCHANGED holders
    /\ lastOut' = out
    /\ UNCHANGED imported
    /\ ImpFrame

\* validity() / bitmap(index): as for a buffer; a bitmap is never copied.
TakeBitmap(out) ==
    /\ imported # "no" /\ HandleAtHand
    /\ TotalHolders < MaxClones
    /\ LET s1 == ArcClone(ImpState)
       IN  IF out = "zero_copy"
           THEN /\ SetImpState(s1)
                /\ holders' = [holders EXCEPT !["bitmap"] = @ + 1]
           ELSE /\ SetImpState(ArcDrop(s1))
                /\ UNCHANGED holders
    /\ lastOut' = out
    /\ UNCHANGED imported
    /\ ImpFrame

\* child(index) / dictionary(): self.parent().clone() goes into the returned
\* ArrowArrayChild, next to a reference to the child / dictionary struct; on a
\* failed check, or when the type has no dictionary, the clone is dropped.
TakeView(out) ==
    /\ imported # "no" /\ HandleAtHand
    /\ TotalHolders < MaxClones
    /\ LET s1 == ArcClone(ImpState)
       IN  IF out = "view"
           THEN /\ SetImpState(s1)
                /\ holders' = [holders EXCEPT !["view"] = @ + 1]
           ELSE /\ SetImpState(ArcDrop(s1))
                /\ UNCHANGED holders
    /\ lastOut' = out
    /\ UNCHANGED imported
    /\ ImpFrame

\* A buffer, a bitmap or the root InternalArrowArray goes out of scope.
DropHolder(k) ==
    /\ imported # "no"
    /\ k \in {"root", "buffer", "bitmap"}
    /\ holders[k] > 0
    /\ holders' = [holders EXCEPT ![k] = @ - 1]
    /\ SetImpState(ArcDrop(ImpState))
    /\ lastOut' = "drop"
    /\ UNCHANGED imported
    /\ ImpFrame

\* An ArrowArrayChild goes out of scope.
DropView ==
    /\ imported # "no"
    /\ holders["view"] > 0
    /\ holders' = [holders EXCEPT !["view"] = @ - 1]
    /\ SetImpState(DropArrowArrayChild(ImpState))
    /\ lastOut' = "drop"
    /\ UNCHANGED imported
    /\ ImpFrame

NextImport ==
    \/ \E h \in BOOLEAN : ImportNew(h)
    \/ \E out \in {"zero_copy", "copy", "empty", "error"} : TakeBuffer(out)
    \/ \E out \in {"zero_copy", "empty", "error"} : TakeBitmap(out)
    \/ \E out \in {"view", "none", "error"} : TakeView(out)
    \/ \E k \in HolderKinds : DropHolder(k)
    \/ DropView

(***************************************************************************)
(* CONCURRENT DROPS OF THE HANDLE                                          *)
(*                                                                         *)
(* ArrowArray is Send + Sync, so clones of the handle are dropped by       *)
(* different threads. Arc's drop is a fetch_sub on the strong count        *)
(* followed, in the thread that got 1 back, by the drop of the ArrowArray. *)
(***************************************************************************)
Threads == 1..NThreads

RECURSIVE SumHeld(_, _)
SumHeld(h, T) ==
    IF T = {} THEN 0
    ELSE LET t == CHOOSE x \in T : TRUE IN h[t] + SumHeld(h, T \ {t})

\* A mutant of IsLastDecrement: the thread reads the count again after its
\* decrement instead of using what fetch_sub returned.
IsLastDecrementReread(t) == arcStrong = 0

\* Arc::drop: `if self.inner().strong.fetch_sub(1, Release) != 1 { return; }`
IsLastDecrement(t) == saw[t] = 1

InitArc ==
    /\ arcStrong = 0
    /\ arcRelease = FALSE
    /\ arcCalls = 0
    /\ held = [t \in Threads |-> 0]
    /\ tpc = [t \in Threads |-> "run"]
    /\ saw = [t \in Threads |-> 0]
    /\ lastDec = 0
    /\ releasedBy = 0
    /\ liveAtRelease = 0

\* The handle is built around a foreign struct and its clones are handed to
\* the threads.
ArcShare(h) ==
    /\ arcStrong = 0 /\ ~arcRelease /\ arcCalls = 0
    /\ SumHeld(h, Threads) >= 1
    /\ held' = h
    /\ arcStrong' = SumHeld(h, Threads)
    /\ arcRelease' = TRUE
    /\ UNCHANGED <<arcCalls, tpc, saw, lastDec, releasedBy, liveAtRelease>>
    /\ ArcFrame

\* Thread t clones a clone it holds: fetch_add on the strong count.
ThreadClone(t) ==
    /\ tpc[t] = "run"
    /\ held[t] >= 1 /\ held[t] < MaxHeld
    /\ arcStrong' = arcStrong + 1
    /\ held' = [held EXCEPT ![t] = @ + 1]
    /\ UNCHANGED <<arcRelease, arcCalls, tpc, saw, lastDec, releasedBy, liveAtRelease>>
    /\ ArcFrame

\* Thread t drops a clone, first half: the atomic fetch_sub.
ThreadFetchSub(t) ==
    /\ tpc[t] = "run"
    /\ held[t] >= 1
    /\ saw' = [saw EXCEPT ![t] = arcStrong]
    /\ arcStrong' = arcStrong - 1
    /\ held' = [held EXCEPT ![t] = @ - 1]
    /\ lastDec' = IF arcStrong = 1 THEN t ELSE lastDec
    /\ tpc' = [tpc EXCEPT ![t] = "dec"]
    /\ UNCHANGED <<arcRelease, arcCalls, releasedBy, liveAtRelease>>
    /\ ArcFrame

\* Thread t drops a clone, second half: the thread that made the last
\* decrement drops the ArrowArray (Drop for ArrowArray: the release callback
\* is invoked if set, and clears the field); any other thread returns.
ThreadAfterSub(t) ==
    /\ tpc[t] = "dec"
    /\ tpc' = [tpc EXCEPT ![t] = "run"]
    /\ IF IsLastDecrement(t) /\ arcRelease
       THEN /\ arcCalls' = arcCalls + 1
            /\ arcRelease' = FALSE
            /\ releasedBy' = t
            /\ liveAtRelease' = SumHeld(held, Threads)
       ELSE UNCHANGED <<arcCalls, arcRelease, releasedBy, liveAtRelease>>
    /\ UNCHANGED <<arcStrong, held, saw, lastDec>>
    /\ ArcFrame

NextArc ==
    \/ \E h \in [Threads -> 0..MaxHeld] : ArcShare(h)
    \/ \E t \in Threads : ThreadClone(t)
    \/ \E t \in Threads : ThreadFetchSub(t)
    \/ \E t \in Threads : ThreadAfterSub(t)

(***************************************************************************)
(* DICTIONARY ARRAY                                                        *)
(*                                                                         *)
(* A data type is a sequence of tags in prefix form:                       *)
(*   <<"Int32">>, <<"Utf8">>                     plain types               *)
(*   <<"Extension">> \o t                        an extension around t     *)
(*   <<"Dictionary", k>> \o t                    keys of integer type k,   *)
(*                                               values of type t          *)
(* (is_ordered is left out: no operation modelled here reads it.)          *)
(* A key array (PrimitiveArray<K>) is the sequence of its stored values,   *)
(* an optional validity, and the offset of its window in the key buffer.   *)
(***************************************************************************)
Int32T == <<"Int32">>
Utf8T == <<"Utf8">>
ExtensionT(t) == <<"Extension">> \o t
DictionaryT(k, t) == <<"Dictionary", k>> \o t

KeyTypes == {"UInt8", "Int8"}

\* The descriptors and the types of `values` the constructors are tried on.
ValueDTypes == {Int32T, Utf8T, ExtensionT(Int32T)}
DescDTypes ==
    {Int32T, ExtensionT(Int32T)}
    \cup { DictionaryT(k, t) : k \in KeyTypes, t \in ValueDTypes }
    \cup { ExtensionT(DictionaryT(k, Int32T)) : k \in KeyTypes }

\* ArrowDataType::to_logical_type: the type inside any extension wrappers.
RECURSIVE to_logical_type(_)
to_logical_type(t) ==
    IF Len(t) > 0 /\ Head(t) = "Extension" THEN to_logical_type(Tail(t)) ELSE t

IsDictionaryT(t) == Len(t) >= 2 /\ Head(t) = "Dictionary"

\* The values a key slot of type K can hold (a sample of K's range).
KeySlotValues(kt) == IF kt = "UInt8" THEN {0, 1, 5} ELSE {-1, 0, 1}

\* DictionaryKey::KEY_TYPE
KEY_TYPE(kt) == kt

\* DictionaryKey::always_fits_usize: true for u8, the default false for i8.
always_fits_usize(kt) == kt = "UInt8"

\* TryInto<usize>: a key converts exactly when it is not negative.
FitsUsize(k) == k >= 0

NoValidity == [some |-> FALSE, bits |-> <<>>]
SomeValidity(b) == [some |-> TRUE, bits |-> b]

Validities(n) == {NoValidity} \cup { SomeValidity(b) : b \in [1..n -> BOOLEAN] }

KeyArrays(kt) ==
    UNION { { [values |-> v, validity |-> m, off |-> 0] :
                v \in [1..n -> KeySlotValues(kt)], m \in Validities(n) } : n \in 0..MaxKeys }

ValuesArrays == [dtype : ValueDTypes, len : 0..MaxValuesLen]

EmptyKeys == [values |-> <<>>, validity |-> NoValidity, off |-> 0]

NoArray == [present |-> FALSE, dtype |-> <<>>, kt |-> "", keys |-> EmptyKeys,
            values |-> [dtype |-> <<>>, len |-> 0]]

MkArray(dt, kt, keys, values) ==
    [present |-> TRUE, dtype |-> dt, kt |-> kt, keys |-> keys, values |-> values]

NoCall == [op |-> "none", dtype |-> <<>>, kt |-> "", keys |-> EmptyKeys,
           values |-> [dtype |-> <<>>, len |-> 0]]

\* PrimitiveArray::len
KeysLen(keys) == Len(keys.values)

\* PrimitiveArray::null_count: the unset bits of the validity, 0 without one.
KeysNullCount(keys) ==
    IF keys.validity.some
    THEN Cardinality({ i \in 1..Len(keys.validity.bits) : ~keys.validity.bits[i] })
    ELSE 0

\* Whether position i of a key array is non-null.
KeyIsValid(keys, i) == ~keys.validity.some \/ keys.validity.bits[i]

\* A mutant of check_dtype that compares the value types as written, extension
\* wrappers included.
check_dtype_no_logical(key_type, dtype, values_dtype) ==
    IF IsDictionaryT(to_logical_type(dtype))
    THEN LET d == to_logical_type(dtype)
         IN  IF d[2] # key_type THEN "type_mismatch"
             ELSE IF Tail(Tail(d)) # values_dtype THEN "type_mismatch"
             ELSE "ok"
    ELSE "type_mismatch"

\* fn check_dtype(key_type, dtype, values_dtype)
check_dtype(key_type, dtype, values_dtype) ==
    IF IsDictionaryT(to_logical_type(dtype))
    THEN LET d == to_logical_type(dtype)
         IN  IF d[2] # key_type THEN "type_mismatch"
             ELSE IF to_logical_type(Tail(Tail(d))) # to_logical_type(values_dtype)
                  THEN "type_mismatch"
             ELSE "ok"
    ELSE "type_mismatch"

\* specification::check_indexes(keys, len): every key of the slice converts to
\* usize and is below len.
check_indexes(slots, len) ==
    IF \A i \in 1..Len(slots) : FitsUsize(slots[i]) /\ slots[i] < len
    THEN "ok" ELSE "out_of_bounds"

\* specification::check_indexes_unchecked(keys, len): the conversion is taken
\* for granted, only the range of each key of the slice is checked.
check_indexes_unchecked(slots, len) ==
    IF \A i \in 1..Len(slots) : slots[i] < len
    THEN "ok" ELSE "out_of_bounds"

\* A mutant of NeedsBoundsScan: the scan runs only for keys without any null.
NeedsBoundsScanNoNulls(keys) == KeysNullCount(keys) = 0

\* try_new: `if keys.null_count() != keys.len()`
NeedsBoundsScan(keys) == KeysNullCount(keys) # KeysLen(keys)

\* try_new with a scan that looks at the non-null keys only.
try_new_scans_non_null(dt, kt, keys, values) ==
    LET t == check_dtype(KEY_TYPE(kt), dt, values.dtype)
        b == IF \A i \in 1..KeysLen(keys) :
                    KeyIsValid(keys, i) => (FitsUsize(keys.values[i]) /\ keys.values[i] < values.len)
             THEN "ok" ELSE "out_of_bounds"
    IN  IF t # "ok" THEN [res |-> t, arr |-> NoArray]
        ELSE IF b # "ok" THEN [res |-> b, arr |-> NoArray]
        ELSE [res |-> "ok", arr |-> MkArray(dt, kt, keys, values)]

\* DictionaryArray::try_new(dtype, keys, values): the result and the array.
\* The scan is handed keys.values(), the stored values of all slots.
try_new(dt, kt, keys, values) ==
    LET t == check_dtype(KEY_TYPE(kt), dt, values.dtype)
        b == IF NeedsBoundsScan(keys)
             THEN IF always_fits_usize(kt)
                  THEN check_indexes_unchecked(keys.values, values.len)
                  ELSE check_indexes(keys.values, values.len)
             ELSE "ok"
    IN  IF t # "ok" THEN [res |-> t, arr |-> NoArray]
        ELSE IF b # "ok" THEN [res |-> b, arr |-> NoArray]
        ELSE [res |-> "ok", arr |-> MkArray(dt, kt, keys, values)]

\* DictionaryArray::try_new_unchecked(dtype, keys, values)
try_new_unchecked(dt, kt, keys, values) ==
    LET t == check_dtype(KEY_TYPE(kt), dt, values.dtype)
    IN  IF t # "ok" THEN [res |-> t, arr |-> NoArray]
        ELSE [res |-> "ok", arr |-> MkArray(dt, kt, keys, values)]

\* DictionaryKey::as_usize: the conversion, taken for granted by the caller;
\* on a key that does not convert the behaviour is undefined.
as_usize(k) == IF FitsUsize(k) THEN "ok" ELSE "undefined"

\* DictionaryArray::key_value(index): self.keys.values()[index].as_usize(),
\* whether the key at index is null or not.
key_value(arr, index) ==
    IF index >= KeysLen(arr.keys) THEN "panic" ELSE as_usize(arr.keys.values[index + 1])

\* DictionaryArray::default_dtype(values_datatype)
default_dtype(kt, values_dtype) == DictionaryT(KEY_TYPE(kt), values_dtype)

\* DictionaryArray::try_get_child(dtype)
try_get_child(dt) ==
    IF IsDictionaryT(to_logical_type(dt))
    THEN [res |-> "ok", dtype |-> Tail(Tail(to_logical_type(dt)))]
    ELSE [res |-> "type_mismatch", dtype |-> <<>>]

\* PrimitiveArray::new_null(dtype, length): zeroed values, all bits unset.
PrimitiveNewNull(length) ==
    [values |-> [i \in 1..length |-> 0],
     validity |-> SomeValidity([i \in 1..length |-> FALSE]), off |-> 0]

\* PrimitiveArray::slice_unchecked(offset, length): the window of the values
\* and of the validity.
KeysSlice(keys, offset, length) ==
    [values |-> SubSeq(keys.values, offset + 1, offset + length),
     validity |-> IF keys.validity.some
                  THEN SomeValidity(SubSeq(keys.validity.bits, offset + 1, offset + length))
                  ELSE NoValidity,
     off |-> keys.off + offset]

InitDict ==
    /\ darr = NoArray
    /\ checked = FALSE
    /\ halves = <<>>
    /\ call = NoCall
    /\ res = "none"

MkCall(op, dt, kt, keys, values) ==
    [op |-> op, dtype |-> dt, kt |-> kt, keys |-> keys, values |-> values]

OpCall(op) == [NoCall EXCEPT !.op = op]

\* A constructor is called once, before anything else.
Fresh == call.op = "none"

TryNew(dt, kt, keys, values) ==
    /\ Fresh
    /\ LET r == try_new(dt, kt, keys, values)
       IN  /\ darr' = r.arr
           /\ res' = r.res
    /\ checked' = TRUE
    /\ call' = MkCall("try_new", dt, kt, keys, values)
    /\ UNCHANGED halves
    /\ DictFrame

TryNewUnchecked(dt, kt, keys, values) ==
    /\ Fresh
    /\ LET r == try_new_unchecked(dt, kt, keys, values)
       IN  /\ darr' = r.arr
           /\ res' = r.res
    /\ checked' = FALSE
    /\ call' = MkCall("try_new_unchecked", dt, kt, keys, values)
    /\ UNCHANGED halves
    /\ DictFrame

\* DictionaryArray::try_from_keys(keys, values)
TryFromKeys(kt, keys, values) ==
    /\ Fresh
    /\ LET r == try_new(default_dtype(kt, values.dtype), kt, keys, values)
       IN  /\ darr' = r.arr
           /\ res' = r.res
    /\ checked' = TRUE
    /\ call' = MkCall("try_from_keys", default_dtype(kt, values.dtype), kt, keys, values)
    /\ UNCHANGED halves
    /\ DictFrame

\* DictionaryArray::new_null(dtype, length): try_get_child(..).unwrap(), one
\* null value, all-null keys, try_new(..).unwrap().
NewNull(dt, kt, length) ==
    /\ Fresh
    /\ LET c == try_get_child(dt)
           v == [dtype |-> c.dtype, len |-> 1]
           r == try_new(dt, kt, PrimitiveNewNull(length), v)
       IN  IF c.res = "ok" /\ r.res = "ok"
           THEN darr' = r.arr /\ res' = "ok"
           ELSE darr' = NoArray /\ res' = "panic"
    /\ checked' = TRUE
    /\ call' = MkCall("new_null", dt, kt, PrimitiveNewNull(length), [dtype |-> <<>>, len |-> 1])
    /\ UNCHANGED halves
    /\ DictFrame

\* DictionaryArray::new_empty(dtype): no value, no key.
NewEmpty(dt, kt) ==
    /\ Fresh
    /\ LET c == try_get_child(dt)
           v == [dtype |-> c.dtype, len |-> 0]
           r == try_new(dt, kt, EmptyKeys, v)
       IN  IF c.res = "ok" /\ r.res = "ok"
           THEN darr' = r.arr /\ res' = "ok"
           ELSE darr' = NoArray /\ res' = "panic"
    /\ checked' = TRUE
    /\ call' = MkCall("new_empty", dt, kt, EmptyKeys, [dtype |-> <<>>, len |-> 0])
    /\ UNCHANGED halves
    /\ DictFrame

\* One array is at hand to operate on: after a split the caller first picks
\* the half to go on with.
AtHand == darr.present /\ halves = <<>>

\* slice that narrows the values pool along with the keys
SliceNarrowsValues(offset, length) ==
    /\ AtHand
    /\ IF offset + length > KeysLen(darr.keys)
       THEN /\ res' = "panic"
            /\ UNCHANGED darr
       ELSE /\ res' = "ok"
            /\ darr' = [darr EXCEPT !.keys = KeysSlice(darr.keys, offset, length),
                                    !.values.len = IF @ > length THEN length ELSE @]
    /\ call' = OpCall("slice")
    /\ UNCHANGED <<checked, halves>>
    /\ DictFrame

\* DictionaryArray::slice(offset, length): self.keys.slice(offset, length),
\* which panics iff offset + length > len.
Slice(offset, length) ==
    /\ AtHand
    /\ IF offset + length > KeysLen(darr.keys)
       THEN /\ res' = "panic"
            /\ UNCHANGED darr
       ELSE /\ res' = "ok"
            /\ darr' = [darr EXCEPT !.keys = KeysSlice(darr.keys, offset, length)]
    /\ call' = OpCall("slice")
    /\ UNCHANGED <<checked, halves>>
    /\ DictFrame

\* DictionaryArray::slice_unchecked(offset, length), called as its safety
\* section asks: offset + length <= len.
SliceUnchecked(offset, length) ==
    /\ AtHand
    /\ offset + length <= KeysLen(darr.keys)
    /\ res' = "ok"
    /\ darr' = [darr EXCEPT !.keys = KeysSlice(darr.keys, offset, length)]
    /\ call' = OpCall("slice_unchecked")
    /\ UNCHANGED <<checked, halves>>
    /\ DictFrame

\* DictionaryArray::set_validity(validity) / with_validity(validity):
\* self.keys.set_validity(validity), which panics iff the lengths differ.
SetValidity(v) ==
    /\ AtHand
    /\ IF v.some /\ Len(v.bits) # KeysLen(darr.keys)
       THEN /\ res' = "panic"
            /\ UNCHANGED darr
       ELSE /\ res' = "ok"
            /\ darr' = [darr EXCEPT !.keys.validity = v]
    /\ call' = OpCall("set_validity")
    /\ UNCHANGED <<checked, halves>>
    /\ DictFrame

\* Splitable::check_bound
check_bound(arr, offset) == offset < KeysLen(arr.keys)

\* _split_at_unchecked whose right half starts over at the first key
split_at_unchecked_overlapping(arr, offset) ==
    << [arr EXCEPT !.keys = KeysSlice(arr.keys, 0, offset)],
       [arr EXCEPT !.keys = KeysSlice(arr.keys, 0, KeysLen(arr.keys) - offset)] >>

\* Splitable::_split_at_unchecked(&self, offset): the keys are split, the
\* type and the values are cloned into both halves.
split_at_unchecked(arr, offset) ==
    << [arr EXCEPT !.keys = KeysSlice(arr.keys, 0, offset)],
       [arr EXCEPT !.keys = KeysSlice(arr.keys, offset, KeysLen(arr.keys) - offset)] >>

\* Splitable::split_at(offset): asserts check_bound, then splits.
SplitAt(offset) ==
    /\ AtHand
    /\ IF check_bound(darr, offset)
       THEN /\ res' = "ok"
            /\ halves' = split_at_unchecked(darr, offset)
       ELSE /\ res' = "panic"
            /\ UNCHANGED halves
    /\ call' = OpCall("split_at")
    /\ UNCHANGED <<darr, checked>>
    /\ DictFrame

\* The caller goes on with one half of the split.
KeepHalf(i) ==
    /\ halves # <<>>
    /\ darr' = halves[i]
    /\ halves' = <<>>
    /\ call' = OpCall("keep_half")
    /\ res' = "ok"
    /\ UNCHANGED checked
    /\ DictFrame

\* The types the arrays operated on are built with: the dictionary type of
\* the key type over Int32 values.
OpValuesArrays == [dtype : {Int32T}, len : 0..MaxValuesLen]

\* Construction through the checked constructors, then any sequence of
\* slice, set_validity / with_validity and split.
NextDict ==
    \/ Fresh /\ \E kt \in KeyTypes :
          \E keys \in KeyArrays(kt), values \in OpValuesArrays :
             TryNew(DictionaryT(kt, Int32T), kt, keys, values)
    \/ Fresh /\ \E kt \in KeyTypes :
          \E keys \in KeyArrays(kt), values \in OpValuesArrays : TryFromKeys(kt, keys, values)
    \/ Fresh /\ \E kt \in KeyTypes, n \in 0..MaxKeys : NewNull(DictionaryT(kt, Int32T), kt, n)
    \/ Fresh /\ \E kt \in KeyTypes : NewEmpty(DictionaryT(kt, Int32T), kt)
    \/ AtHand /\ \E o, l \in 0..(MaxKeys + 1) : Slice(o, l)
    \/ AtHand /\ \E o, l \in 0..MaxKeys : SliceUnchecked(o, l)
    \/ AtHand /\ \E n \in 0..MaxKeys : \E v \in Validities(n) : SetValidity(v)
    \/ AtHand /\ \E o \in 0..MaxKeys : SplitAt(o)
    \/ \E i \in {1, 2} : KeepHalf(i)

\* The constructors alone, over every combination of descriptor, key type,
\* keys and values.
NextDictNew ==
    \/ Fresh /\ \E dt \in DescDTypes, kt \in KeyTypes :
          \E keys \in KeyArrays(kt), values \in ValuesArrays : TryNew(dt, kt, keys, values)
    \/ Fresh /\ \E dt \in DescDTypes, kt \in KeyTypes :
          \E keys \in KeyArrays(kt), values \in ValuesArrays :
             TryNewUnchecked(dt, kt, keys, values)
    \/ Fresh /\ \E kt \in KeyTypes :
          \E keys \in KeyArrays(kt), values \in ValuesArrays : TryFromKeys(kt, keys, values)
    \/ Fresh /\ \E dt \in DescDTypes, kt \in KeyTypes, n \in 0..MaxKeys : NewNull(dt, kt, n)
    \/ Fresh /\ \E dt \in DescDTypes, kt \in KeyTypes : NewEmpty(dt, kt)

(***************************************************************************)
(* THE SPECIFICATIONS                                                      *)
(***************************************************************************)
(***************************************************************************)
(* Buffers of an imported struct: get_buffer_ptr, buffer_offset,           *)
(* buffer_len, create_buffer, create_buffer_known_len (ffi/array.rs).      *)
(*                                                                         *)
(* The foreign struct is a record of the fields the functions read, and    *)
(* of what the foreign memory holds: `buffers` says whether the pointer    *)
(* array is null, misaligned or usable, nullPtrs which of its entries are  *)
(* null, misalignedPtrs which entries are not aligned for the element      *)
(* type the caller asks for (buffers 0 and 2 hold bytes, which are always  *)
(* aligned).  Slot s of buffer i holds MemAt(a, i, s).                     *)
(***************************************************************************)
PhysicalTypes ==
    {"Primitive", "Utf8", "LargeUtf8", "Binary", "LargeBinary", "List",
     "LargeList", "Map", "FixedSizeBinary", "FixedSizeList", "BinaryView",
     "Utf8View", "Dictionary"}

\* the physical types the foreign structs of the model are drawn from: one
\* per arm of the match in buffer_len (the 64-bit arm reads as the 32-bit one)
StructTypes ==
    {"Primitive", "Utf8", "List", "FixedSizeBinary", "FixedSizeList", "Utf8View"}

HasOffsetBuffer(phys) ==
    phys \in {"Utf8", "LargeUtf8", "Binary", "LargeBinary", "List", "LargeList", "Map"}

HasDataBuffer(phys) == phys \in {"Utf8", "LargeUtf8", "Binary", "LargeBinary"}

HasSize(phys) == phys \in {"FixedSizeBinary", "FixedSizeList"}

NoStruct ==
    [present |-> FALSE, phys |-> "Primitive", size |-> 0, length |-> 0,
     offset |-> 0, null_count |-> 0, n_buffers |-> 0, buffers |-> "null",
     nullPtrs |-> {}, misalignedPtrs |-> {}, mem |-> <<>>]

AtMostOne(S) == {{}} \cup {{x} : x \in S}

\* slots a foreign buffer of the model holds: enough for every length the
\* functions below can ask for
MemCap == (MaxSize + MaxStride) * (MaxOffset + MaxLen + 1) + MaxGarbage

\* the foreign memory behind the pointer array: buffer 0 holds bits (every
\* other one set), the offsets buffer of a variable-length type holds
\* slot * stride, every other slot a value that names its buffer and position
PatternMem(phys, stride) ==
    [b \in 1..MaxBuffers |->
        [k \in 1..MemCap |->
            IF b = 1 THEN k % 2
            ELSE IF b = 2 /\ stride > 0 THEN (k - 1) * stride
            ELSE 100 * (b - 1) + (k - 1)]]

\* a size only on fixed-size types, offsets only where there is an offsets
\* buffer
SizesOf(phys) == IF HasSize(phys) THEN 1..MaxSize ELSE {0}
StridesOf(phys) == IF HasOffsetBuffer(phys) THEN 1..MaxStride ELSE {0}

\* pointer entries only where there is a pointer array
IsCanonical(a) ==
    /\ (a.buffers = "null" => a.nullPtrs = {} /\ a.misalignedPtrs = {})
    /\ a.nullPtrs \cap a.misalignedPtrs = {}

\* what a foreign producer can hand over: the struct's fields and, as
\* `stride`, what its offsets buffer holds
ForeignStructs ==
    UNION { { [phys |-> ph, size |-> sz, length |-> l,
               offset |-> o, n_buffers |-> nb, buffers |-> b, nullPtrs |-> np,
               misalignedPtrs |-> mp, stride |-> st] :
                sz \in SizesOf(ph), st \in StridesOf(ph), l \in 0..MaxLen,
                o \in 0..MaxOffset, nb \in 0..MaxBuffers,
                b \in {"null", "misaligned", "ok"},
                np \in AtMostOne(0..(MaxBuffers - 1)),
                mp \in AtMostOne({1}) } : ph \in StructTypes }

\* what slot `slot` of foreign buffer `index` holds
MemAt(a, index, slot) == a.mem[index + 1][slot + 1]

Window(a, index, from, n) == [k \in 1..n |-> MemAt(a, index, from + k - 1)]

BufOk(data, zc) == [kind |-> "ok", data |-> data, zero_copy |-> zc]
BufErr == [kind |-> "err", data |-> <<>>, zero_copy |-> FALSE]
BufCrash == [kind |-> "crash", data |-> <<>>, zero_copy |-> FALSE]
NoBuf == [kind |-> "none", data |-> <<>>, zero_copy |-> FALSE]
NoBufCall == [op |-> "none", index |-> 0, len |-> 0]

\* get_buffer_ptr without the test of the pointer at `index`
get_buffer_ptr_no_null_test(array, index) ==
    IF array.buffers = "null" THEN "err"
    ELSE IF array.buffers = "misaligned" THEN "err"
    ELSE IF index >= array.n_buffers THEN "err"
    ELSE "ok"

get_buffer_ptr(array, index) ==
    IF array.buffers = "null" THEN "err"
    ELSE IF array.buffers = "misaligned" THEN "err"
    ELSE IF index >= array.n_buffers THEN "err"
    ELSE IF index \in array.nullPtrs THEN "err"
    ELSE "ok"

\* buffer_offset that takes every buffer to start at its first slot
buffer_offset_zero(array, i) == 0

buffer_offset(array, i) ==
    IF HasDataBuffer(array.phys) /\ i = 2 THEN 0
    ELSE IF array.phys = "FixedSizeBinary" /\ i = 1 THEN array.offset * array.size
    ELSE array.offset

Defined(n) == {[crash |-> FALSE, len |-> n]}

\* the outcomes of a read through a pointer that was never checked: the
\* process dies, or the read yields whatever the memory holds
UndefinedRead ==
    {[crash |-> TRUE, len |-> 0]} \cup {[crash |-> FALSE, len |-> g] : g \in 0..MaxGarbage}

\* buffer_len reads entry 1 of the pointer array, and the offsets behind it,
\* with no test at all
OffsetBufferReadable(array) ==
    /\ array.buffers = "ok"
    /\ array.n_buffers >= 2
    /\ 1 \notin array.nullPtrs
    /\ 1 \notin array.misalignedPtrs

\* buffer_len without the extra slot of an offsets buffer
buffer_len_no_extra_slot(array, i) ==
    LET total == array.offset + array.length IN
    IF HasSize(array.phys) /\ i = 1 THEN Defined(array.size * total)
    ELSE IF HasDataBuffer(array.phys) /\ i = 2
         THEN IF OffsetBufferReadable(array)
              THEN Defined(MemAt(array, 1, (total + 1) - 1))
              ELSE UndefinedRead
    ELSE Defined(total)

\* buffer_len that takes the last offset to be the one at position `length`
buffer_len_ignores_offset(array, i) ==
    LET total == array.offset + array.length IN
    IF HasSize(array.phys) /\ i = 1 THEN Defined(array.size * total)
    ELSE IF HasOffsetBuffer(array.phys) /\ i = 1 THEN Defined(total + 1)
    ELSE IF HasDataBuffer(array.phys) /\ i = 2
         THEN IF OffsetBufferReadable(array)
              THEN Defined(MemAt(array, 1, array.length))
              ELSE UndefinedRead
    ELSE Defined(total)

\* the set of lengths buffer_len can return (one, unless its read is undefined)
buffer_len(array, i) ==
    LET total == array.offset + array.length IN
    IF HasSize(array.phys) /\ i = 1 THEN Defined(array.size * total)
    ELSE IF HasOffsetBuffer(array.phys) /\ i = 1 THEN Defined(total + 1)
    ELSE IF array.phys \in {"BinaryView", "Utf8View"} /\ i = 1 THEN Defined(total)
    ELSE IF HasDataBuffer(array.phys) /\ i = 2
         THEN IF OffsetBufferReadable(array)
              THEN Defined(MemAt(array, 1, (total + 1) - 1))
              ELSE UndefinedRead
    ELSE Defined(total)

create_buffer_known_len(array, len, index) ==
    IF len = 0 THEN BufOk(<<>>, FALSE)
    ELSE IF get_buffer_ptr(array, index) = "err" THEN BufErr
    ELSE BufOk(Window(array, index, 0, len), TRUE)

\* the set of results of create_buffer once buffer_len has returned `lo`;
\* slice::from_raw_parts on a misaligned pointer is itself undefined: a
\* build with the standard library's precondition checks aborts, any other
\* copies len - offset elements starting at the pointer
create_buffer(array, index, lo) ==
    IF lo.crash THEN {BufCrash}
    ELSE IF lo.len = 0 THEN {BufOk(<<>>, FALSE)}
    ELSE LET offset == buffer_offset(array, index) IN
         IF get_buffer_ptr(array, index) = "err" THEN {BufErr}
         ELSE IF index \notin array.misalignedPtrs
              THEN {BufOk(Window(array, index, offset, lo.len - offset), TRUE)}
              ELSE {BufOk(Window(array, index, 0, lo.len - offset), FALSE), BufCrash}

\* a bitmap: `len` bits of `bits` from bit `offset` on, with the null count
\* it was given
NoBitmap ==
    [kind |-> "ok", has |-> FALSE, bits |-> <<>>, offset |-> 0, len |-> 0, null_count |-> 0]
BitmapErr ==
    [kind |-> "err", has |-> FALSE, bits |-> <<>>, offset |-> 0, len |-> 0, null_count |-> 0]
NotCalled ==
    [kind |-> "none", has |-> FALSE, bits |-> <<>>, offset |-> 0, len |-> 0, null_count |-> 0]
EmptyBitmap ==
    [kind |-> "ok", has |-> TRUE, bits |-> <<>>, offset |-> 0, len |-> 0, null_count |-> 0]
\* try_into().expect(..) on a field that does not fit in usize
BitmapPanic ==
    [kind |-> "panic", has |-> FALSE, bits |-> <<>>, offset |-> 0, len |-> 0, null_count |-> 0]

CountNulls(bits, from, n) == Cardinality({k \in (from + 1)..(from + n) : bits[k] = 0})

\* create_bitmap that counts the unset bits itself
create_bitmap_recounts(array, index, is_validity) ==
    IF array.length < 0 THEN BitmapPanic
    ELSE IF array.length = 0 THEN EmptyBitmap
    ELSE IF get_buffer_ptr(array, index) = "err" THEN BitmapErr
    ELSE IF array.offset < 0 THEN BitmapPanic
    ELSE [kind |-> "ok", has |-> TRUE, bits |-> array.mem[index + 1],
          offset |-> array.offset, len |-> array.length,
          null_count |-> CountNulls(array.mem[index + 1], array.offset, array.length)]

\* create_bitmap: length and offset are converted with try_into().expect,
\* the null count of a validity is ArrowArray::null_count(), an `as usize`
create_bitmap(array, index, is_validity) ==
    IF array.length < 0 THEN BitmapPanic
    ELSE IF array.length = 0 THEN EmptyBitmap
    ELSE IF get_buffer_ptr(array, index) = "err" THEN BitmapErr
    ELSE IF array.offset < 0 THEN BitmapPanic
    ELSE [kind |-> "ok", has |-> TRUE, bits |-> array.mem[index + 1],
          offset |-> array.offset, len |-> array.length,
          null_count |-> IF is_validity THEN i64_as_usize(array.null_count)
                         ELSE CountNulls(array.mem[index + 1], array.offset, array.length)]

validity(array) ==
    IF array.null_count = 0 THEN NoBitmap ELSE create_bitmap(array, 0, TRUE)

InitBuffer ==
    /\ fstruct = NoStruct
    /\ bcall = NoBufCall
    /\ bout = NoBuf
    /\ vout = NotCalled

\* a foreign producer hands over a struct, with null_count nc
ReceiveStruct(a, nc) ==
    /\ ~fstruct.present
    /\ IsCanonical(a)
    /\ fstruct' = [present |-> TRUE, phys |-> a.phys, size |-> a.size,
                   length |-> a.length, offset |-> a.offset, null_count |-> nc,
                   n_buffers |-> a.n_buffers, buffers |-> a.buffers,
                   nullPtrs |-> a.nullPtrs, misalignedPtrs |-> a.misalignedPtrs,
                   mem |-> PatternMem(a.phys, a.stride)]
    /\ UNCHANGED <<bcall, bout, vout>>
    /\ BufFrame

\* ArrowArrayRef::buffer::<T>(index)
Buffer(index) ==
    /\ fstruct.present
    /\ bcall.op = "none"
    /\ \E lo \in buffer_len(fstruct, index) :
        \E r \in create_buffer(fstruct, index, lo) :
            /\ bcall' = [op |-> "buffer", index |-> index, len |-> lo.len]
            /\ bout' = r
    /\ UNCHANGED <<fstruct, vout>>
    /\ BufFrame

\* ArrowArrayRef::buffer_known_len::<T>(index, len)
BufferKnownLen(index, len) ==
    /\ fstruct.present
    /\ bcall.op = "none"
    /\ bcall' = [op |-> "buffer_known_len", index |-> index, len |-> len]
    /\ bout' = create_buffer_known_len(fstruct, len, index)
    /\ UNCHANGED <<fstruct, vout>>
    /\ BufFrame

\* ArrowArrayRef::validity()
Validity ==
    /\ fstruct.present
    /\ bcall.op = "none"
    /\ bcall' = [op |-> "validity", index |-> 0, len |-> 0]
    /\ vout' = validity(fstruct)
    /\ UNCHANGED <<fstruct, bout>>
    /\ BufFrame

\* ArrowArrayRef::bitmap(index)
Bitmap(index) ==
    /\ fstruct.present
    /\ bcall.op = "none"
    /\ bcall' = [op |-> "bitmap", index |-> index, len |-> 0]
    /\ vout' = create_bitmap(fstruct, index, FALSE)
    /\ UNCHANGED <<fstruct, bout>>
    /\ BufFrame

\* the structs buffer lengths and offsets are computed for: every physical
\* type of the match, over pointers that can all be read
GeometryStructs ==
    UNION { { [phys |-> ph, size |-> sz, length |-> l, offset |-> o,
               n_buffers |-> MaxBuffers, buffers |-> "ok", nullPtrs |-> {},
               misalignedPtrs |-> {}, stride |-> st] :
                sz \in SizesOf(ph), st \in StridesOf(ph), l \in 0..MaxLen,
                o \in 0..MaxOffset } : ph \in PhysicalTypes }

NextGeometry ==
    \/ ~fstruct.present /\ \E a \in GeometryStructs : ReceiveStruct(a, 0)
    \/ \E index \in 0..MaxBuffers : Buffer(index)

\* the structs the bitmap calls are tried on: create_bitmap reads no type
BitmapStructs == {a \in ForeignStructs : a.phys \in {"Primitive", "Utf8"}}

NextValidity ==
    \/ ~fstruct.present /\ \E a \in BitmapStructs, nc \in 0..MaxLen : ReceiveStruct(a, nc)
    \/ Validity
    \/ \E index \in 0..MaxBuffers : Bitmap(index)

\* structs whose signed fields a producer filled with anything: a length, an
\* offset or a null count of -1, a null count above the length
MalformedStructs ==
    { [phys |-> "Primitive", size |-> 0, length |-> l, offset |-> o,
       n_buffers |-> nb, buffers |-> b, nullPtrs |-> np, misalignedPtrs |-> {},
       stride |-> 0] :
        l \in (-1)..MaxLen, o \in (-1)..MaxOffset, nb \in 0..1,
        b \in {"null", "ok"}, np \in AtMostOne({0}) }

NextMalformed ==
    \/ ~fstruct.present /\ \E a \in MalformedStructs, nc \in (-1)..(MaxLen + 1) :
            ReceiveStruct(a, nc)
    \/ Validity
    \/ \E index \in 0..1 : Bitmap(index)

NextBuffer ==
    \/ ~fstruct.present /\ \E a \in ForeignStructs : ReceiveStruct(a, 0)
    \/ \E index \in 0..MaxBuffers : Buffer(index)
    \/ \E index \in 0..MaxBuffers, len \in 0..MaxLen : BufferKnownLen(index, len)


(***************************************************************************)
(* Export then import: ArrowArray::new builds the struct tree of a native  *)
(* array, try_from reads it back through validity, buffer, child and       *)
(* dictionary.                                                             *)
(*                                                                         *)
(* A native array is a window (offset, length) over its storage: `values`  *)
(* holds the values, the offsets or the keys, `data` the bytes of a string *)
(* array, `validity` the bits (1: valid) with their own window start       *)
(* voffset, `child` the child or the dictionary (at most one), `chunks`    *)
(* the lengths of the data buffers of a view-encoded array, whose `values` *)
(* are its views.                                                          *)
(***************************************************************************)
NoNative ==
    [present |-> FALSE, phys |-> "Primitive", size |-> 0, offset |-> 0,
     voffset |-> 0, length |-> 0, has_validity |-> FALSE, validity |-> <<>>,
     null_count |-> 0, values |-> <<>>, data |-> <<>>, child |-> <<>>,
     chunks |-> <<>>]

NativeOf(phys, size, o, l, v, values, data, child) ==
    [present |-> TRUE, phys |-> phys, size |-> size, offset |-> o,
     voffset |-> v.voffset, length |-> l, has_validity |-> v.has,
     validity |-> v.bits,
     null_count |-> IF v.has THEN CountNulls(v.bits, v.voffset, l) ELSE 0,
     values |-> values, data |-> data, child |-> child, chunks |-> <<>>]

\* the validities of a window (o, l): none, or bits whose window starts at
\* the values' offset or at bit 0
ValidityChoices(o, l) ==
    {[has |-> FALSE, bits |-> <<>>, voffset |-> 0]}
    \cup { [has |-> TRUE, voffset |-> vo,
            bits |-> [k \in 1..(vo + l) |-> IF k <= vo THEN 1 ELSE w[k - vo]]] :
                vo \in {0, o}, w \in [1..l -> {0, 1}] }

ArrayWindows == (0..MaxOffset) \X (0..MaxLen)

PrimitiveArrays ==
    UNION { { NativeOf("Primitive", 0, w[1], w[2], v,
                       [k \in 1..(w[1] + w[2]) |-> 10 + k], <<>>, <<>>) :
                v \in ValidityChoices(w[1], w[2]) } : w \in ArrayWindows }

FixedSizeBinaryArrays ==
    UNION { { NativeOf("FixedSizeBinary", sz, w[1], w[2], v,
                       [k \in 1..(sz * (w[1] + w[2])) |-> 10 + k], <<>>, <<>>) :
                v \in ValidityChoices(w[1], w[2]), sz \in 1..MaxSize } : w \in ArrayWindows }

\* the offsets of o elements of length 1 followed by elements of lengths lens
RECURSIVE OffsetAfter(_, _, _)
OffsetAfter(o, lens, k) ==
    IF k = 0 THEN 0
    ELSE OffsetAfter(o, lens, k - 1) + (IF k <= o THEN 1 ELSE lens[k - o])

OffsetsOf(o, lens) == [k \in 1..(o + Len(lens) + 1) |-> OffsetAfter(o, lens, k - 1)]

ElementLengths(l) == [1..l -> 0..MaxElem]

Utf8Arrays ==
    UNION { { NativeOf("Utf8", 0, w[1], w[2], v, OffsetsOf(w[1], lens),
                       [k \in 1..OffsetAfter(w[1], lens, w[1] + w[2]) |-> 20 + k], <<>>) :
                v \in ValidityChoices(w[1], w[2]), lens \in ElementLengths(w[2]) } :
            w \in ArrayWindows }

\* a primitive child of n elements, itself a window at offset co
PrimitiveChild(co, n) ==
    NativeOf("Primitive", 0, co, n, [has |-> FALSE, bits |-> <<>>, voffset |-> 0],
             [k \in 1..(co + n) |-> 30 + k], <<>>, <<>>)

ListArrays ==
    UNION { { NativeOf("List", 0, w[1], w[2], v, OffsetsOf(w[1], lens), <<>>,
                       <<PrimitiveChild(co, OffsetAfter(w[1], lens, w[1] + w[2]))>>) :
                v \in ValidityChoices(w[1], w[2]), lens \in ElementLengths(w[2]),
                co \in {0, 1} } : w \in ArrayWindows }

DictionaryArrays ==
    UNION { { NativeOf("Dictionary", 0, w[1], w[2], v,
                       [k \in 1..(w[1] + w[2]) |-> k % n], <<>>,
                       <<PrimitiveChild(co, n)>>) :
                v \in ValidityChoices(w[1], w[2]), n \in 1..MaxPool, co \in {0, 1} } :
            w \in ArrayWindows }

ViewTypes == {"BinaryView", "Utf8View"}

\* view-encoded arrays over up to MaxChunks data buffers
ViewArrays(phys) ==
    UNION { { [NativeOf(phys, 0, w[1], w[2], v,
                        [k \in 1..(w[1] + w[2]) |-> 50 + k], <<>>, <<>>)
                  EXCEPT !.chunks = c] :
                v \in ValidityChoices(w[1], w[2]),
                c \in UNION { [1..n -> 1..MaxElem] : n \in 0..MaxChunks } } :
            w \in ArrayWindows }

LeafArrays == {"Primitive", "FixedSizeBinary", "Utf8", "List", "Dictionary"}

NativeArrays(phys) ==
    IF phys = "Primitive" THEN PrimitiveArrays
    ELSE IF phys = "FixedSizeBinary" THEN FixedSizeBinaryArrays
    ELSE IF phys = "Utf8" THEN Utf8Arrays
    ELSE IF phys = "List" THEN ListArrays
    ELSE IF phys \in ViewTypes THEN ViewArrays(phys)
    ELSE DictionaryArrays

IsValidAt(a, i) == ~a.has_validity \/ a.validity[a.voffset + i] = 1

\* the value of array a at position i (1-based): null, or the element as a
\* sequence
RECURSIVE ValueAt(_, _)
ValueAt(a, i) ==
    IF ~IsValidAt(a, i) THEN [null |-> TRUE, v |-> <<>>]
    ELSE IF a.phys = "Primitive" THEN [null |-> FALSE, v |-> <<a.values[a.offset + i]>>]
    ELSE IF a.phys = "FixedSizeBinary"
         THEN [null |-> FALSE,
               v |-> SubSeq(a.values, (a.offset + i - 1) * a.size + 1, (a.offset + i) * a.size)]
    ELSE IF a.phys = "Utf8"
         THEN [null |-> FALSE,
               v |-> SubSeq(a.data, a.values[a.offset + i] + 1, a.values[a.offset + i + 1])]
    ELSE IF a.phys = "List"
         THEN [null |-> FALSE,
               v |-> [k \in 1..(a.values[a.offset + i + 1] - a.values[a.offset + i]) |->
                        ValueAt(a.child[1], a.values[a.offset + i] + k)]]
    ELSE [null |-> FALSE, v |-> <<ValueAt(a.child[1], a.values[a.offset + i] + 1)>>]

ArrayValues(a) == [i \in 1..a.length |-> ValueAt(a, i)]

\* bridge::align_to_c_data_interface: an array whose validity window does
\* not start at the values' offset gets a validity that does
align_to_c_data_interface(a) ==
    IF a.has_validity /\ a.voffset # a.offset
    THEN [a EXCEPT !.voffset = a.offset,
                   !.validity = [k \in 1..(a.offset + a.length) |->
                                    IF k <= a.offset THEN 1
                                    ELSE a.validity[a.voffset + k - a.offset]]]
    ELSE a

BufferPtr(slots) == [null |-> FALSE, slots |-> slots]
NullPtr == [null |-> TRUE, slots |-> <<>>]

\* ToFfi of each array type: the offset, the buffers (validity first), the
\* children and the dictionary
offset_buffers_children_dictionary(a) ==
    LET bitmap == IF a.has_validity THEN BufferPtr(a.validity) ELSE NullPtr IN
    [offset |-> a.offset,
     buffers |-> IF a.phys = "Utf8"
                 THEN <<bitmap, BufferPtr(a.values), BufferPtr(a.data)>>
                 ELSE IF a.phys \in ViewTypes
                 THEN <<bitmap, BufferPtr(a.values)>>
                      \o [j \in 1..Len(a.chunks) |->
                            BufferPtr([k \in 1..a.chunks[j] |-> 40 + k])]
                 ELSE <<bitmap, BufferPtr(a.values)>>,
     children |-> IF a.phys = "List" THEN a.child ELSE <<>>,
     dictionary |-> IF a.phys = "Dictionary" THEN a.child ELSE <<>>]

\* BinaryViewArray / Utf8ViewArray::variadic_buffer_lengths
variadic_buffer_lengths(a) == a.chunks

\* the buffers of the layout alone
ExportedBuffersNoVariadic(array) == offset_buffers_children_dictionary(array).buffers

\* the buffers ArrowArray::new points the struct to: those of the layout,
\* and for a view-encoded array one more, the table of its data buffers'
\* lengths
ExportedBuffers(array) ==
    LET l == offset_buffers_children_dictionary(array) IN
    IF array.phys \in ViewTypes
    THEN Append(l.buffers, BufferPtr(variadic_buffer_lengths(array)))
    ELSE l.buffers

RECURSIVE ArrowArrayNew(_)
ArrowArrayNew(array) ==
    LET l == offset_buffers_children_dictionary(array)
        buffers == ExportedBuffers(array)
    IN
    [present |-> TRUE, phys |-> array.phys, size |-> array.size,
     length |-> array.length,
     null_count |-> array.null_count,
     offset |-> l.offset,
     n_buffers |-> Len(buffers),
     n_children |-> Len(l.children),
     buffers |-> "ok",
     children_ptr |-> "ok",
     nullChildren |-> {},
     nullPtrs |-> {i \in 0..(Len(buffers) - 1) : buffers[i + 1].null},
     misalignedPtrs |-> {},
     mem |-> [i \in 1..Len(buffers) |-> buffers[i].slots],
     children |-> [i \in 1..Len(l.children) |->
                    ArrowArrayNew(align_to_c_data_interface(l.children[i]))],
     dictionary |-> [i \in 1..Len(l.dictionary) |->
                    ArrowArrayNew(align_to_c_data_interface(l.dictionary[i]))],
     release |-> TRUE]

\* every result buffer(index) can have
BufferResults(array, index) ==
    UNION { create_buffer(array, index, lo) : lo \in buffer_len(array, index) }

ChildErr == [kind |-> "err", array |-> NoStruct]

\* what a read past the end of the children array gives: anything
ChildUndefined == [kind |-> "undefined", array |-> NoStruct]

\* create_child without the test of the child pointer
create_child_no_null_test(array, index) ==
    IF array.children_ptr = "null" THEN ChildErr
    ELSE IF index >= i64_as_usize(array.n_children) THEN ChildErr
    ELSE IF index + 1 \notin DOMAIN array.children THEN ChildUndefined
    ELSE [kind |-> "ok", array |-> array.children[index + 1]]

\* create_child, after get_child: the tests of the children pointer, of
\* index against `n_children as usize`, and of the pointer read at index
create_child(array, index) ==
    IF array.children_ptr = "null" THEN ChildErr
    ELSE IF index >= i64_as_usize(array.n_children) THEN ChildErr
    ELSE IF index + 1 \notin DOMAIN array.children THEN ChildUndefined
    ELSE IF index \in array.nullChildren THEN ChildErr
    ELSE [kind |-> "ok", array |-> array.children[index + 1]]

\* create_dictionary without the test of the dictionary pointer
create_dictionary_no_null_test(array) ==
    IF array.phys = "Dictionary"
    THEN [kind |-> "ok", array |-> IF array.dictionary = <<>> THEN NoStruct
                                   ELSE array.dictionary[1]]
    ELSE [kind |-> "none", array |-> NoStruct]

create_dictionary(array) ==
    IF array.phys = "Dictionary"
    THEN IF array.dictionary = <<>> THEN [kind |-> "err", array |-> NoStruct]
         ELSE [kind |-> "ok", array |-> array.dictionary[1]]
    ELSE [kind |-> "none", array |-> NoStruct]

ImportOk(arr) == [kind |-> "ok", arr |-> arr]
ImportFail(kind) == [kind |-> kind, arr |-> NoNative]
NotImported == [kind |-> "none", arr |-> NoNative]

\* the array a try_from_ffi assembles from the parts it read
FromFfi(array, v, length, values, data, child) ==
    [present |-> TRUE, phys |-> array.phys, size |-> array.size, offset |-> 0,
     voffset |-> v.offset, length |-> length, has_validity |-> v.has,
     validity |-> v.bits, null_count |-> v.null_count, values |-> values,
     data |-> data, child |-> child, chunks |-> <<>>]

FirstFailure(kinds) ==
    IF "crash" \in kinds THEN "crash" ELSE IF "err" \in kinds THEN "err" ELSE "ok"

\* the set of results of try_from on a struct
RECURSIVE try_from(_)
try_from(array) ==
    LET v == validity(array) IN
    IF v.kind = "err" THEN {ImportFail("err")}
    ELSE IF array.phys = "Utf8"
    THEN { IF FirstFailure({b1.kind, b2.kind}) # "ok"
           THEN ImportFail(FirstFailure({b1.kind, b2.kind}))
           ELSE ImportOk(FromFfi(array, v, Len(b1.data) - 1, b1.data, b2.data, <<>>)) :
                b1 \in BufferResults(array, 1), b2 \in BufferResults(array, 2) }
    ELSE IF array.phys = "List"
    THEN LET c == create_child(array, 0) IN
         IF c.kind = "err" THEN {ImportFail("err")}
         ELSE { IF FirstFailure({b1.kind, r.kind}) # "ok"
                THEN ImportFail(FirstFailure({b1.kind, r.kind}))
                ELSE ImportOk(FromFfi(array, v, Len(b1.data) - 1, b1.data, <<>>, <<r.arr>>)) :
                     b1 \in BufferResults(array, 1), r \in try_from(c.array) }
    ELSE IF array.phys = "Dictionary"
    THEN LET d == create_dictionary(array) IN
         IF d.kind # "ok" THEN {ImportFail("err")}
         ELSE { IF FirstFailure({b1.kind, r.kind}) # "ok"
                THEN ImportFail(FirstFailure({b1.kind, r.kind}))
                ELSE ImportOk(FromFfi(array, v, Len(b1.data), b1.data, <<>>, <<r.arr>>)) :
                     b1 \in BufferResults(array, 1), r \in try_from(d.array) }
    ELSE IF array.phys = "FixedSizeBinary"
    THEN { IF b1.kind # "ok" THEN ImportFail(b1.kind)
           ELSE ImportOk(FromFfi(array, v, Len(b1.data) \div array.size, b1.data, <<>>, <<>>)) :
                b1 \in BufferResults(array, 1) }
    ELSE { IF b1.kind # "ok" THEN ImportFail(b1.kind)
           ELSE ImportOk(FromFfi(array, v, Len(b1.data), b1.data, <<>>, <<>>)) :
                b1 \in BufferResults(array, 1) }

InitRoundTrip ==
    /\ native = NoNative
    /\ estruct = NoStruct
    /\ back = NotImported

\* a native array A comes into being
NewArray(a) ==
    /\ ~native.present
    /\ native' = a
    /\ UNCHANGED <<estruct, back>>
    /\ RtFrame

\* export_array_to_c: ArrowArray::new(align_to_c_data_interface(A))
ExportArray ==
    /\ native.present
    /\ ~estruct.present
    /\ estruct' = ArrowArrayNew(align_to_c_data_interface(native))
    /\ UNCHANGED <<native, back>>
    /\ RtFrame

\* import_array_from_c: try_from(InternalArrowArray::new(struct, dtype))
ImportArray ==
    /\ estruct.present
    /\ back.kind = "none"
    /\ \E r \in try_from(estruct) : back' = r
    /\ UNCHANGED <<native, estruct>>
    /\ RtFrame

NextRoundTrip ==
    \/ ~native.present /\ \E phys \in LeafArrays : \E a \in NativeArrays(phys) : NewArray(a)
    \/ ExportArray
    \/ ImportArray

\* export alone, of every array type of the model
NextExport ==
    \/ ~native.present /\ \E phys \in LeafArrays \cup ViewTypes :
            \E a \in NativeArrays(phys) : NewArray(a)
    \/ ExportArray


(***************************************************************************)
(* CHILDREN AND DICTIONARY OF AN IMPORTED STRUCT                           *)
(*                                                                         *)
(* ArrowArrayRef::child and ::dictionary are called on a pair (struct,     *)
(* type descriptor).  A descriptor is its kind, the types of its children  *)
(* in order and, for a dictionary encoding, the type of its values.  An    *)
(* "Extension" descriptor is an extension type over a dictionary encoding: *)
(* create_dictionary matches on the descriptor itself and so does not see  *)
(* the encoding under it.                                                  *)
(***************************************************************************)
ChildTypes == {"Int32", "Utf8"}
NoType == "none"

DType(kind, fields, values) == [kind |-> kind, fields |-> fields, values |-> values]

Descriptors ==
    {DType("Primitive", <<>>, NoType)}
    \cup { DType("List", <<t>>, NoType) : t \in ChildTypes }
    \cup UNION { { DType("Struct", f, NoType) : f \in [1..n -> ChildTypes] } :
                    n \in 0..MaxChildren }
    \cup { DType("Dictionary", <<>>, t) : t \in ChildTypes }
    \cup { DType("Extension", <<>>, t) : t \in ChildTypes }

\* schema::get_child(dtype, index): the type of child `index` of dtype, a
\* failure when dtype has no such child
get_child(dtype, index) ==
    IF index < Len(dtype.fields)
    THEN [kind |-> "ok", dtype |-> dtype.fields[index + 1]]
    ELSE [kind |-> "err", dtype |-> NoType]

\* the struct the i-th entry of a children array points to
ChildStruct(i) == [NoStruct EXCEPT !.present = TRUE, !.length = i]
DictStruct == [NoStruct EXCEPT !.present = TRUE, !.length = MaxChildren + 1]

NoParent ==
    [present |-> FALSE, dtype |-> DType("Primitive", <<>>, NoType),
     array |-> [phys |-> "Primitive", n_children |-> 0, children_ptr |-> "null",
                nullChildren |-> {}, children |-> <<>>, dictionary |-> <<>>]]

\* the foreign structs: any declared number of children, -1 included, a null
\* or a set children array, null entries in it, a null or a set dictionary
ForeignParents ==
    UNION { { [present |-> TRUE, dtype |-> d,
               array |-> [phys |-> d.kind, n_children |-> n, children_ptr |-> cp,
                          nullChildren |-> nulls,
                          children |-> [i \in 1..n |-> ChildStruct(i)],
                          dictionary |-> dict]] :
                d \in Descriptors, cp \in {"ok", "null"},
                nulls \in SUBSET (0..(n - 1)), dict \in {<<>>, <<DictStruct>>} } :
            n \in (-1)..MaxChildren }

NoView == [kind |-> "none", array |-> NoStruct, dtype |-> NoType]
ViewErr == [kind |-> "err", array |-> NoStruct, dtype |-> NoType]
NoChildCall == [op |-> "none", index |-> 0]

\* ArrowArrayRef::child(index) = create_child(array, dtype, parent, index)
child(self, index) ==
    LET t == get_child(self.dtype, index)
        c == create_child(self.array, index)
    IN  IF t.kind = "err" THEN {ViewErr}
        ELSE IF c.kind = "undefined"
        THEN {ViewErr, [kind |-> "crash", array |-> NoStruct, dtype |-> NoType],
              [kind |-> "ok", array |-> NoStruct, dtype |-> t.dtype]}
        ELSE IF c.kind = "err" THEN {ViewErr}
        ELSE {[kind |-> "ok", array |-> c.array, dtype |-> t.dtype]}

\* ArrowArrayRef::dictionary() = create_dictionary(array, dtype, parent)
dictionary(self) ==
    LET d == create_dictionary(self.array) IN
    IF d.kind = "ok"
    THEN [kind |-> "ok", array |-> d.array, dtype |-> self.dtype.values]
    ELSE [kind |-> d.kind, array |-> NoStruct, dtype |-> NoType]

InitChild ==
    /\ cstruct = NoParent
    /\ ccall = NoChildCall
    /\ cout = NoView

ReceiveParent(s) ==
    /\ ~cstruct.present
    /\ cstruct' = s
    /\ UNCHANGED <<ccall, cout>>
    /\ ChildFrame

Child(index) ==
    /\ cstruct.present
    /\ ccall.op = "none"
    /\ ccall' = [op |-> "child", index |-> index]
    /\ \E r \in child(cstruct, index) : cout' = r
    /\ UNCHANGED cstruct
    /\ ChildFrame

Dictionary ==
    /\ cstruct.present
    /\ ccall.op = "none"
    /\ ccall' = [op |-> "dictionary", index |-> 0]
    /\ cout' = dictionary(cstruct)
    /\ UNCHANGED cstruct
    /\ ChildFrame

NextChild ==
    \/ ~cstruct.present /\ \E s \in ForeignParents : ReceiveParent(s)
    \/ \E index \in 0..MaxChildren : Child(index)
    \/ Dictionary


(***************************************************************************)
(* CASTS OF A COLUMN (crates/polars-core/src/chunked_array/cast.rs)        *)
(*                                                                         *)
(* A column is a dtype, a sequence of chunks and a sorted flag.  A chunk   *)
(* of a numeric column is its values and their validity; a chunk of a list *)
(* column is its offsets, the validity of its rows, and the values and the *)
(* validity of the inner array.  Integer types keep their width; Float64   *)
(* holds every integer of the model exactly.                               *)
(***************************************************************************)
IntegerTypes == {"Int8", "UInt8", "Int16", "UInt16"}
NumericTypes == IntegerTypes \cup {"Float64"}

is_signed_integer(t) == t \in {"Int8", "Int16"}
is_unsigned_integer(t) == t \in {"UInt8", "UInt16"}
BitsOf(t) == IF t \in {"Int8", "UInt8"} THEN 8 ELSE 16
MinOf(t) == IF is_signed_integer(t) THEN -(2 ^ (BitsOf(t) - 1)) ELSE 0
MaxOf(t) == IF is_signed_integer(t) THEN 2 ^ (BitsOf(t) - 1) - 1 ELSE 2 ^ BitsOf(t) - 1
Representable(v, t) == t = "Float64" \/ (MinOf(t) <= v /\ v <= MaxOf(t))

\* the values the columns of the model are drawn from
Samples == {-1, 0, 128, 256}
ValuesOf(t) == { v \in Samples : Representable(v, t) }

Numeric(t) == [kind |-> "Numeric", t |-> t]
List(t) == [kind |-> "List", t |-> t]

NumArr(values, valid) ==
    [offsets |-> <<>>, valid |-> valid, values |-> values, ivalid |-> <<>>]
ListArr(offsets, valid, values, ivalid) ==
    [offsets |-> offsets, valid |-> valid, values |-> values, ivalid |-> ivalid]

CountFalse(bits) == Cardinality({ i \in DOMAIN bits : ~bits[i] })

\* Array::null_count of a chunk; Array::len
ArrNullCount(arr) == CountFalse(arr.valid)
ArrLen(arr) == Len(arr.valid)

RECURSIVE SumOver(_, _)
SumOver(f, n) == IF n = 0 THEN 0 ELSE f[n] + SumOver(f, n - 1)

\* ChunkedArray::null_count
ColNullCount(chunks) == SumOver([i \in DOMAIN chunks |-> ArrNullCount(chunks[i])], Len(chunks))

\* `v as T` of the wrapping integer casts
WrapTo(v, t) ==
    IF is_signed_integer(t)
    THEN ((v + 2 ^ (BitsOf(t) - 1)) % (2 ^ BitsOf(t))) - 2 ^ (BitsOf(t) - 1)
    ELSE v % (2 ^ BitsOf(t))

\* CastOptions -> CastOptionsImpl.wrapped
Wrapped(options) == options = "Overflowing"

\* polars_compute::cast::cast on a primitive array: a value the target type
\* cannot hold wraps when `wrapped`, and is null otherwise; a null slot holds
\* 0
compute_cast(arr, to, wrapped) ==
    LET fits(i) == Representable(arr.values[i], to) IN
    NumArr([i \in DOMAIN arr.values |->
               IF ~arr.valid[i] THEN 0
               ELSE IF fits(i) THEN arr.values[i]
               ELSE IF wrapped THEN WrapTo(arr.values[i], to) ELSE 0],
           [i \in DOMAIN arr.valid |-> arr.valid[i] /\ (fits(i) \/ wrapped)])

CastErr == [kind |-> "err", dtype |-> Numeric("Int8"), chunks |-> <<>>, sorted |-> "Not"]
NoCastOut == [kind |-> "none", dtype |-> Numeric("Int8"), chunks |-> <<>>, sorted |-> "Not"]
Series(dtype, chunks, sorted) ==
    [kind |-> "ok", dtype |-> dtype, chunks |-> chunks, sorted |-> sorted]

\* cast_chunks that compares the null counts in every mode
cast_chunks_always_checks(chunks, dtype, options) ==
    LET out == [i \in DOMAIN chunks |-> compute_cast(chunks[i], dtype, Wrapped(options))] IN
    IF \E i \in DOMAIN chunks : ArrNullCount(chunks[i]) # ArrNullCount(out[i])
    THEN [kind |-> "err", chunks |-> <<>>]
    ELSE [kind |-> "ok", chunks |-> out]

\* cast_chunks(chunks, dtype, options)
cast_chunks(chunks, dtype, options) ==
    LET check_nulls == options = "Strict"
        out == [i \in DOMAIN chunks |-> compute_cast(chunks[i], dtype, Wrapped(options))]
    IN  IF check_nulls /\ \E i \in DOMAIN chunks :
                              ArrNullCount(chunks[i]) # ArrNullCount(out[i])
        THEN [kind |-> "err", chunks |-> <<>>]
        ELSE [kind |-> "ok", chunks |-> out]

\* cast_impl_inner for a numeric target: the chunks are cast and wrapped
\* into a new Series, whose sorted flag is not set
cast_impl_inner(chunks, dtype, options) ==
    LET c == cast_chunks(chunks, dtype, options) IN
    IF c.kind = "err" THEN CastErr
    ELSE Series(Numeric(dtype), c.chunks, "Not")

\* ChunkedArray<T: PolarsNumericType>::cast_impl(dtype, options)
cast_impl(self, dtype, options) ==
    IF self.dtype = Numeric(dtype)
    THEN Series(Numeric(dtype), self.chunks, self.sorted)
    ELSE LET s == cast_impl_inner(self.chunks, dtype, options)
             to_signed == is_signed_integer(dtype)
             unsigned2unsigned ==
                 is_unsigned_integer(self.dtype.t) /\ is_unsigned_integer(dtype)
             allowed == to_signed \/ unsigned2unsigned
         IN  IF s.kind = "err" THEN s
             ELSE IF \/ allowed /\ ColNullCount(s.chunks) = ColNullCount(self.chunks)
                     \/ self.dtype.t = dtype
                  THEN [s EXCEPT !.sorted = self.sorted]
                  ELSE s

\* ChunkedArray::rechunk of a list column and downcast_as_array: one array
\* holding the rows of every chunk, the offsets of a later chunk moved up by
\* the number of values before it
RECURSIVE rechunk(_)
rechunk(chunks) ==
    IF Len(chunks) = 0 THEN ListArr(<<0>>, <<>>, <<>>, <<>>)
    ELSE LET front == rechunk(SubSeq(chunks, 1, Len(chunks) - 1))
             last == chunks[Len(chunks)]
         IN  ListArr(front.offsets \o
                        [k \in 1..(Len(last.offsets) - 1) |->
                            last.offsets[k + 1] + Len(front.values)],
                     front.valid \o last.valid,
                     front.values \o last.values,
                     front.ivalid \o last.ivalid)

\* cast_list that keeps the values but not the validity of the rows
cast_list_drops_validity(ca, child_type, options) ==
    LET arr == rechunk(ca.chunks)
        new_inner == cast_impl([dtype |-> Numeric(ca.dtype.t),
                                chunks |-> <<NumArr(arr.values, arr.ivalid)>>,
                                sorted |-> "Not"], child_type, options)
    IN  IF new_inner.kind = "err" THEN [kind |-> "err", arr |-> arr, inner_dtype |-> child_type]
        ELSE [kind |-> "ok", inner_dtype |-> new_inner.dtype.t,
              arr |-> ListArr(arr.offsets, [i \in DOMAIN arr.valid |-> TRUE],
                              new_inner.chunks[1].values, new_inner.chunks[1].valid)]

\* cast_list(ca, child_type, options): the inner values of the rechunked
\* column are cast as a Series of their own, and a list array is built from
\* the old offsets, the new values and the old validity
cast_list(ca, child_type, options) ==
    LET arr == rechunk(ca.chunks)
        new_inner == cast_impl([dtype |-> Numeric(ca.dtype.t),
                                chunks |-> <<NumArr(arr.values, arr.ivalid)>>,
                                sorted |-> "Not"], child_type, options)
    IN  IF new_inner.kind = "err" THEN [kind |-> "err", arr |-> arr, inner_dtype |-> child_type]
        ELSE [kind |-> "ok", inner_dtype |-> new_inner.dtype.t,
              arr |-> ListArr(arr.offsets, arr.valid,
                              new_inner.chunks[1].values, new_inner.chunks[1].valid)]

\* ChunkCast for ListChunked::cast_with_options, to List(child_type)
list_cast_with_options(self, child_type, options) ==
    IF self.dtype.t = child_type
    THEN Series(self.dtype, self.chunks, self.sorted)
    ELSE LET c == cast_list(self, child_type, options) IN
         IF c.kind = "err" THEN CastErr
         ELSE Series(List(c.inner_dtype), <<c.arr>>, "Not")

\* ---- the columns of the model
NullsTogether(valid) ==
    \/ \A i, j \in DOMAIN valid : (i < j /\ valid[j]) => valid[i]
    \/ \A i, j \in DOMAIN valid : (i < j /\ valid[i]) => valid[j]

\* the column's rows in order: nulls at one end, the others ascending
\* (dir = 1) or descending (dir = -1)
SortedRows(values, valid, dir) ==
    /\ NullsTogether(valid)
    /\ \A i, j \in DOMAIN values :
          (i < j /\ valid[i] /\ valid[j]) => dir * values[i] <= dir * values[j]

Concat(chunks, field) ==
    LET RECURSIVE Go(_)
        Go(n) == IF n = 0 THEN <<>> ELSE Go(n - 1) \o chunks[n][field]
    IN  Go(Len(chunks))

IsSorted(chunks, flag) ==
    IF flag = "Ascending" THEN SortedRows(Concat(chunks, "values"), Concat(chunks, "valid"), 1)
    ELSE IF flag = "Descending" THEN SortedRows(Concat(chunks, "values"), Concat(chunks, "valid"), -1)
    ELSE TRUE

SortedFlags == {"Not", "Ascending", "Descending"}

NoColumn == [present |-> FALSE, dtype |-> Numeric("Int8"), chunks |-> <<>>, sorted |-> "Not"]

\* the splits of n rows into chunks
Chunkings(n) == {<<n>>} \cup { <<k, n - k>> : k \in 1..(n - 1) }

ChunkOf(values, valid, from, len) ==
    NumArr(SubSeq(values, from, from + len - 1), SubSeq(valid, from, from + len - 1))

\* the flags a column of these rows can carry: a sorted flag is set only on
\* sorted rows
FlagsOf(values, valid) ==
    { f \in SortedFlags :
        f = "Not" \/ SortedRows(values, valid, IF f = "Descending" THEN -1 ELSE 1) }

\* the rows, with 0 in the null slots
Rows(n, t) ==
    { [values |-> [i \in 1..n |-> IF valid[i] THEN values[i] ELSE 0], valid |-> valid] :
        values \in [1..n -> ValuesOf(t)], valid \in [1..n -> BOOLEAN] }

\* numeric columns of type t
NumericColumns(t) ==
    UNION { UNION { { [present |-> TRUE, dtype |-> Numeric(t), sorted |-> flag,
                       chunks |-> [c \in DOMAIN ch |->
                                     ChunkOf(r.values, r.valid,
                                             IF c = 1 THEN 1 ELSE ch[1] + 1, ch[c])]] :
                        ch \in Chunkings(n), flag \in FlagsOf(r.values, r.valid) } :
                    r \in Rows(n, t) } :
            n \in 1..MaxRows }

\* a list chunk: one row per entry of lens, each row of lens[i] values
ListChunk(lens, valid, v) ==
    ListArr([k \in 1..(Len(lens) + 1) |-> SumOver(lens, k - 1)], valid,
            [k \in 1..SumOver(lens, Len(lens)) |-> v],
            [k \in 1..SumOver(lens, Len(lens)) |-> TRUE])

\* list columns of inner type t, of one or two chunks of one row each
ListColumns(t) ==
    { [present |-> TRUE, dtype |-> List(t), sorted |-> "Not",
       chunks |-> [c \in 1..n |-> ListChunk(<<lens[c]>>, <<valid[c]>>, vals[c])]] :
        n \in 1..MaxChunks, lens \in [1..MaxChunks -> 0..MaxElem],
        valid \in [1..MaxChunks -> BOOLEAN], vals \in [1..MaxChunks -> ValuesOf(t)] }

CastOptions == {"Strict", "NonStrict", "Overflowing"}

NoCastCall == [op |-> "none", dtype |-> Numeric("Int8"), options |-> "Strict"]

InitCast ==
    /\ col = NoColumn
    /\ castCall = NoCastCall
    /\ castOut = NoCastOut

NewColumn(c) ==
    /\ ~col.present
    /\ col' = c
    /\ UNCHANGED <<castCall, castOut>>
    /\ CastFrame

Uncalled == col.present /\ castCall.op = "none"

\* cast_chunks on the chunks of a numeric column
CastChunks(dtype, options) ==
    /\ Uncalled
    /\ col.dtype.kind = "Numeric"
    /\ castCall' = [op |-> "cast_chunks", dtype |-> Numeric(dtype), options |-> options]
    /\ LET c == cast_chunks(col.chunks, dtype, options) IN
       castOut' = IF c.kind = "err" THEN CastErr
                  ELSE Series(Numeric(dtype), c.chunks, "Not")
    /\ UNCHANGED col
    /\ CastFrame

\* ChunkCast::cast_with_options of a numeric or a list column
CastWithOptions(dtype, options) ==
    /\ Uncalled
    /\ castCall' = [op |-> "cast_with_options", dtype |-> dtype, options |-> options]
    /\ col.dtype.kind = dtype.kind
    /\ castOut' = IF dtype.kind = "Numeric" THEN cast_impl(col, dtype.t, options)
                  ELSE list_cast_with_options(col, dtype.t, options)
    /\ UNCHANGED col
    /\ CastFrame

\* ChunkCast::cast_unchecked: cast_impl(dtype, Overflowing) for a numeric
\* column, cast_with_options(dtype, Overflowing) for a list column
CastUnchecked(dtype) ==
    /\ Uncalled
    /\ castCall' = [op |-> "cast_unchecked", dtype |-> dtype, options |-> "Overflowing"]
    /\ col.dtype.kind = dtype.kind
    /\ castOut' = IF dtype.kind = "Numeric" THEN cast_impl(col, dtype.t, "Overflowing")
                  ELSE list_cast_with_options(col, dtype.t, "Overflowing")
    /\ UNCHANGED col
    /\ CastFrame

TargetTypes == { Numeric(t) : t \in NumericTypes } \cup { List(t) : t \in NumericTypes }

NextCast ==
    \/ ~col.present /\ \E t \in IntegerTypes :
            \E c \in NumericColumns(t) \cup ListColumns(t) : NewColumn(c)
    \/ Uncalled /\ \E t \in NumericTypes, o \in CastOptions : CastChunks(t, o)
    \/ Uncalled /\ \E d \in TargetTypes, o \in CastOptions : CastWithOptions(d, o)
    \/ Uncalled /\ \E d \in TargetTypes : CastUnchecked(d)


(***************************************************************************)
(* EXPANSION FLAGS                                                         *)
(* (crates/polars-plan/src/plans/conversion/dsl_to_ir/expr_expansion.rs)   *)
(*                                                                         *)
(* find_flags walks the nodes of an expression once and collects the       *)
(* flags.  An expression is the sequence of its nodes in the order the     *)
(* iterator yields them; a node is its kind and, for IndexColumn, the      *)
(* number of its indexes.                                                  *)
(***************************************************************************)
Node(kind, n) == [kind |-> kind, n |-> n]

ExprNodes ==
    { Node(k, 0) : k \in {"Columns", "DtypeColumn", "Nth", "Wildcard", "Selector",
                          "FieldByIndex", "MultipleFields", "Exclude", "Field",
                          "Column"} }
    \cup { Node("IndexColumn", n) : n \in 0..MaxIndexes }

Exprs == UNION { [1..n -> ExprNodes] : n \in 1..MaxExprNodes }

NoFlags ==
    [multiple_columns |-> FALSE, has_nth |-> FALSE, has_wildcard |-> FALSE,
     has_selector |-> FALSE, has_exclude |-> FALSE,
     has_struct_field_by_index |-> FALSE, expands_fields |-> FALSE]

\* the arm `Expr::IndexColumn(idx) => multiple_columns = idx.len() > 1`
visit_index_column(f, node) ==
    [f EXCEPT !.multiple_columns = node.n > 1]

\* one turn of the loop of find_flags on a node other than Field
visit(f, node) ==
    IF node.kind \in {"Columns", "DtypeColumn"} THEN [f EXCEPT !.multiple_columns = TRUE]
    ELSE IF node.kind = "IndexColumn" THEN visit_index_column(f, node)
    ELSE IF node.kind = "Nth" THEN [f EXCEPT !.has_nth = TRUE]
    ELSE IF node.kind = "Wildcard" THEN [f EXCEPT !.has_wildcard = TRUE]
    ELSE IF node.kind = "Selector" THEN [f EXCEPT !.has_selector = TRUE]
    ELSE IF node.kind = "FieldByIndex" THEN [f EXCEPT !.has_struct_field_by_index = TRUE]
    ELSE IF node.kind = "MultipleFields" THEN [f EXCEPT !.expands_fields = TRUE]
    ELSE IF node.kind = "Exclude" THEN [f EXCEPT !.has_exclude = TRUE]
    ELSE f

InitFlags ==
    /\ fexpr = <<>>
    /\ fpos = 0
    /\ flags = NoFlags
    /\ fres = "none"

\* find_flags(expr) is called: the flags start out false
FindFlags(e) ==
    /\ fres = "none"
    /\ fexpr' = e
    /\ fpos' = 0
    /\ flags' = NoFlags
    /\ fres' = "run"
    /\ FlagFrame

\* the loop visits the next node; a Field node ends the call with an error
VisitNode ==
    /\ fres = "run"
    /\ fpos < Len(fexpr)
    /\ fpos' = fpos + 1
    /\ IF fexpr[fpos + 1].kind = "Field"
       THEN fres' = "err" /\ UNCHANGED flags
       ELSE fres' = fres /\ flags' = visit(flags, fexpr[fpos + 1])
    /\ UNCHANGED fexpr
    /\ FlagFrame

\* every node was visited: Ok(ExpansionFlags { .. })
ReturnFlags ==
    /\ fres = "run"
    /\ fpos = Len(fexpr)
    /\ fres' = "ok"
    /\ UNCHANGED <<fexpr, fpos, flags>>
    /\ FlagFrame

NextFlags ==
    \/ fres = "none" /\ \E e \in Exprs : FindFlags(e)
    \/ VisitNode
    \/ ReturnFlags


Init ==
    /\ InitRelease /\ InitImport /\ InitArc /\ InitDict /\ InitBuffer
    /\ InitRoundTrip /\ InitChild /\ InitCast /\ InitFlags

SpecRelease == Init /\ [][NextRelease]_vars

SpecImport == Init /\ [][NextImport]_vars

SpecArc == Init /\ [][NextArc]_vars

SpecDict == Init /\ [][NextDict]_vars

SpecDictNew == Init /\ [][NextDictNew]_vars

SpecBuffer == Init /\ [][NextBuffer]_vars

SpecRoundTrip == Init /\ [][NextRoundTrip]_vars

SpecValidity == Init /\ [][NextValidity]_vars

SpecGeometry == Init /\ [][NextGeometry]_vars

SpecChild == Init /\ [][NextChild]_vars

SpecExport == Init /\ [][NextExport]_vars

SpecCast == Init /\ [][NextCast]_vars

SpecMalformed == Init /\ [][NextMalformed]_vars

SpecFlags == Init /\ [][NextFlags]_vars

\* C1: over any sequence of releases of an exported struct (wrapper drops and
\* invocations of the stored release callback, in any order, any number of
\* times) the private allocation of every node is reclaimed at most once and no
\* struct box is freed twice: a release of an already released struct frees
\* nothing.
C1_TeardownAtMostOnce ==
    exported => \A n \in Nodes : torn[n] <= 1 /\ freed[n] <= 1

\* C1 witness: the root of a tree with descendants was released a second time,
\* through both paths, and every node was still torn down once.
C1_Witness ==
    /\ exported
    /\ tree.n >= 2
    /\ attempts[1] >= 2
    /\ ~release[1]
    /\ \A n \in Nodes : torn[n] = 1

\* C2: a release of an unreleased struct n reclaims the private allocation of
\* n and of every unreleased struct of n's subtree exactly once, leaves no
\* struct of the subtree unreleased (release pointer cleared), tears no struct
\* down a second time, and touches nothing outside the subtree.
C2_ReleaseTearsDownTree ==
    [][\A n \in Nodes :
         (exported /\ attempts'[n] # attempts[n] /\ release[n]) =>
            /\ \A m \in Subtree(n) :
                  /\ ~release'[m]
                  /\ torn'[m] = torn[m] + (IF release[m] THEN 1 ELSE 0)
                  /\ torn'[m] = 1
            /\ \A m \in Nodes \ Subtree(n) :
                  release'[m] = release[m] /\ torn'[m] = torn[m]]_vars

\* C2 witness: a tree with a child and a dictionary was released through its
\* root alone, and every struct of it is released and torn down once.
C2_Witness ==
    /\ exported
    /\ \E c, d \in Nodes : tree.edge[c] = "child" /\ tree.edge[d] = "dict"
    /\ attempts = [n \in Nodes |-> IF n = 1 THEN 1 ELSE 0]
    /\ \A n \in Nodes : ~release[n] /\ torn[n] = 1

\* C3: on import, the foreign release callback is not invoked while any clone
\* of the ownership handle is alive (the root handle, a zero-copy buffer, a
\* bitmap, a child or dictionary view); once the last clone is dropped it has
\* been invoked exactly once; and the importer never releases a child or
\* dictionary struct itself.
C3_ReleaseDeferredToLastClone ==
    (imported = "set") =>
        /\ TotalHolders > 0 => (releaseCalls = 0 /\ rootRelease)
        /\ TotalHolders = 0 => (releaseCalls = 1 /\ ~rootRelease)
        /\ strong = TotalHolders
        /\ childReleaseCalls = 0

\* C3 witness: the root handle and a view are gone, a zero-copy buffer still
\* holds a clone and the callback has not run.
C3_Witness ==
    /\ imported = "set"
    /\ holders["root"] = 0 /\ holders["view"] = 0
    /\ holders["buffer"] = 1 /\ holders["bitmap"] = 0
    /\ lastOut = "drop"
    /\ releaseCalls = 0

\* C4: when clones of the handle are dropped concurrently, in every
\* interleaving the release callback runs at most once, it is run by the thread
\* whose decrement took the count to zero, no clone is alive when it runs, and
\* once every clone is dropped and every thread has finished its drop it has
\* run exactly once.
C4_ConcurrentDropReleasesOnce ==
    /\ arcCalls <= 1
    /\ releasedBy # 0 => (arcCalls = 1 /\ releasedBy = lastDec /\ liveAtRelease = 0)
    /\ (arcStrong > 0 \/ SumHeld(held, Threads) > 0) => arcCalls = 0
    /\ (lastDec # 0 /\ \A t \in Threads : tpc[t] = "run") => arcCalls = 1

\* C4 witness: two threads were inside their drops at the same time, the one
\* that decremented last has run the callback and the other has not returned yet.
C4_Witness ==
    /\ arcCalls = 1
    /\ \E t, u \in Threads :
          t # u /\ releasedBy = t /\ tpc[t] = "run" /\ tpc[u] = "dec" /\ saw[u] = 2

\* Whether every non-null key of array a is a machine index below values.len().
NonNullKeysInBounds(a) ==
    \A i \in 1..KeysLen(a.keys) :
        KeyIsValid(a.keys, i) =>
            (a.keys.values[i] >= 0 /\ a.keys.values[i] < a.values.len)

\* C5: in every state reached from a DictionaryArray built by a checked
\* constructor (try_new, try_from_keys, new_null, new_empty) through slice,
\* set_validity / with_validity and split, every non-null key is an index
\* strictly below values.len().
C5_NonNullKeysInBounds ==
    checked =>
        /\ darr.present => NonNullKeysInBounds(darr)
        /\ \A h \in 1..Len(halves) : NonNullKeysInBounds(halves[h])

\* C6: try_new returns an out-of-bounds failure and no array whenever the
\* dtype checks pass and some non-null key is negative (not a machine index)
\* or is >= values.len().
C6_TryNewRejectsOutOfBounds ==
    (/\ call.op = "try_new"
     /\ IsDictionaryT(to_logical_type(call.dtype))
     /\ to_logical_type(call.dtype)[2] = call.kt
     /\ to_logical_type(Tail(Tail(to_logical_type(call.dtype))))
           = to_logical_type(call.values.dtype)
     /\ \E i \in 1..KeysLen(call.keys) :
           /\ KeyIsValid(call.keys, i)
           /\ (call.keys.values[i] < 0 \/ call.keys.values[i] >= call.values.len))
    => (res = "out_of_bounds" /\ ~darr.present)

\* C6 witness: u8 keys, the non-null key 5 next to a null slot, three values.
C6_Witness ==
    /\ call.op = "try_new"
    /\ call.kt = "UInt8"
    /\ call.dtype = DictionaryT("UInt8", Int32T)
    /\ call.values = [dtype |-> Int32T, len |-> 3]
    /\ call.keys.values = <<0, 5>>
    /\ call.keys.validity = SomeValidity(<<FALSE, TRUE>>)
    /\ res = "out_of_bounds"

\* The tags left of a type once its leading extension wrappers are removed.
Unwrapped(t) ==
    LET n == CHOOSE k \in 0..Len(t) :
                /\ \A i \in 1..k : t[i] = "Extension"
                /\ (k < Len(t) => t[k + 1] # "Extension")
    IN  SubSeq(t, n + 1, Len(t))

\* C10: try_new and try_new_unchecked return a type-mismatch failure, and do
\* not panic, exactly when the descriptor's logical type is not a dictionary
\* encoding, or its key tag differs from K's key type, or its declared value
\* type differs from values.dtype() once the extension wrappers around either
\* are set aside.
C10_TypeMismatch ==
    (call.op \in {"try_new", "try_new_unchecked"}) =>
        LET d == Unwrapped(call.dtype)
            mismatch ==
                \/ ~(Len(d) >= 2 /\ d[1] = "Dictionary")
                \/ d[2] # call.kt
                \/ Unwrapped(SubSeq(d, 3, Len(d))) # Unwrapped(call.values.dtype)
        IN  /\ res # "panic"
            /\ (res = "type_mismatch") <=> mismatch
            /\ (res = "type_mismatch") => ~darr.present

\* C10 witness: the declared value type and the type of the values differ only
\* by an extension wrapper, and the unchecked constructor accepted them.
C10_Witness ==
    /\ call.op = "try_new_unchecked"
    /\ call.dtype = DictionaryT("Int8", ExtensionT(Int32T))
    /\ call.values.dtype = Int32T
    /\ call.kt = "Int8"
    /\ res = "ok"

\* C8 (as stated): for every struct offset and length, buffer(index) taken
\* through the copy path (pointer not aligned for the element type) returns
\* the same elements as the zero-copy path returns for the same struct with
\* the pointer aligned.
C8_CopyEqualsZeroCopy ==
    (bcall.op = "buffer" /\ bout.kind = "ok" /\ bcall.len > 0 /\ ~bout.zero_copy)
        => \A z \in create_buffer([fstruct EXCEPT !.misalignedPtrs = {}], bcall.index,
                                  [crash |-> FALSE, len |-> bcall.len]) :
               z.kind = "ok" /\ z.data = bout.data

BadPointers(a, index) ==
    \/ a.buffers = "null"
    \/ index >= a.n_buffers
    \/ index \in a.nullPtrs

CallDTypeOk ==
    /\ IsDictionaryT(to_logical_type(call.dtype))
    /\ to_logical_type(call.dtype)[2] = call.kt
    /\ to_logical_type(Tail(Tail(to_logical_type(call.dtype))))
          = to_logical_type(call.values.dtype)

\* Whether the key stored in slot i of keys is a machine index below len.
SlotInBounds(keys, i, len) == FitsUsize(keys.values[i]) /\ keys.values[i] < len

\* C11 (as documented on try_new): try_new errors if and only if the dtype's
\* logical type is not a dictionary, its key type is not that of the keys, its
\* value type is not that of the values, or any of the keys' values is not
\* representable as usize or is >= values.len().
C11_TryNewErrorsIff ==
    call.op = "try_new" =>
        ((res # "ok") <=>
            \/ ~CallDTypeOk
            \/ \E i \in 1..KeysLen(call.keys) : ~SlotInBounds(call.keys, i, call.values.len))

\* C12 (as stated): when the dtype checks pass and every non-null key is
\* representable and below values.len(), try_new succeeds whatever the null
\* key slots hold.
C12_OnlyNonNullKeysChecked ==
    (/\ call.op = "try_new"
     /\ CallDTypeOk
     /\ \A i \in 1..KeysLen(call.keys) :
           KeyIsValid(call.keys, i) => SlotInBounds(call.keys, i, call.values.len))
    => res = "ok"

\* C12 (amended): when the dtype checks pass, try_new succeeds exactly when
\* all keys are null or every stored key, null slots included, is
\* representable and below values.len(); otherwise it fails out of bounds.
C12_EverySlotChecked ==
    (call.op = "try_new" /\ CallDTypeOk) =>
        /\ (res = "ok") <=>
              \/ KeysNullCount(call.keys) = KeysLen(call.keys)
              \/ \A i \in 1..KeysLen(call.keys) : SlotInBounds(call.keys, i, call.values.len)
        /\ res \in {"ok", "out_of_bounds"}

\* C12 witness: the only key out of range is in a null slot, next to a
\* non-null key in range, and try_new fails.
C12_Witness ==
    /\ call.op = "try_new"
    /\ CallDTypeOk
    /\ call.kt = "UInt8"
    /\ call.values.len = 3
    /\ call.keys.values = <<0, 5>>
    /\ call.keys.validity = SomeValidity(<<TRUE, FALSE>>)
    /\ res = "out_of_bounds"

\* C13 (as stated): in every array obtained from a checked constructor and
\* in every array derived from it by slice, set_validity / with_validity or
\* split, the key stored at every position, null or not, converts to usize
\* and is below values.len(), so that key_value never converts a key that
\* does not convert.
C13_EveryStoredKeyInBounds ==
    (checked /\ darr.present) =>
        \A i \in 1..KeysLen(darr.keys) :
            /\ key_value(darr, i - 1) = "ok"
            /\ SlotInBounds(darr.keys, i, darr.values.len)

\* C14: validity() returns none exactly when the struct's null_count is 0;
\* otherwise, on a struct of non-zero length whose buffer 0 can be reached,
\* it returns a bitmap of `length` bits that starts at bit `offset` of
\* buffer 0 and whose null count is the struct's null_count, whatever the
\* bits say.
C14_ValidityFromNullCount ==
    bcall.op = "validity" =>
        /\ (vout.kind = "ok" /\ ~vout.has) <=> fstruct.null_count = 0
        /\ (/\ fstruct.null_count # 0
            /\ fstruct.length > 0
            /\ fstruct.buffers = "ok"
            /\ ~BadPointers(fstruct, 0))
           => vout = [kind |-> "ok", has |-> TRUE, bits |-> fstruct.mem[1],
                      offset |-> fstruct.offset, len |-> fstruct.length,
                      null_count |-> fstruct.null_count]

\* C14 witness: the struct declares a null count its bits do not have, at a
\* non-zero offset, and the bitmap carries the declared count.
C14_Witness ==
    /\ bcall.op = "validity"
    /\ vout.kind = "ok"
    /\ vout.has
    /\ fstruct.offset > 0
    /\ vout.len = fstruct.length
    /\ vout.len > 0
    /\ vout.null_count = fstruct.null_count
    /\ vout.null_count # CountNulls(vout.bits, vout.offset, vout.len)

\* C15: the length in slots computed for buffer 1 is offset+length+1 for
\* variable-length string/binary (32- and 64-bit offsets), list, large-list
\* and map; offset+length for view-encoded string/binary;
\* size*(offset+length) for fixed-size binary; offset+length for the other
\* primitive-like types.
C15_Buffer1Length ==
    (bcall.op = "buffer" /\ bcall.index = 1) =>
        LET total == fstruct.offset + fstruct.length IN
        /\ bout.kind # "crash"
        /\ fstruct.phys \in {"Utf8", "LargeUtf8", "Binary", "LargeBinary", "List",
                             "LargeList", "Map"} => bcall.len = total + 1
        /\ fstruct.phys \in {"BinaryView", "Utf8View"} => bcall.len = total
        /\ fstruct.phys = "FixedSizeBinary" => bcall.len = fstruct.size * total
        /\ fstruct.phys \in {"Primitive", "Dictionary"} => bcall.len = total

\* C15 witness: buffer 1 of a map struct at a non-zero offset was measured.
C15_Witness ==
    /\ bcall.op = "buffer"
    /\ bcall.index = 1
    /\ fstruct.phys = "Map"
    /\ fstruct.offset > 0
    /\ fstruct.length > 0
    /\ bcall.len = fstruct.offset + fstruct.length + 1
    /\ bout.kind = "ok"

\* The element at position p (from 1) of the buffers of string struct s: null
\* where the struct has nulls and bit p is unset, else the bytes between
\* offsets p and p + 1.
ElementOf(s, p) ==
    IF s.null_count # 0 /\ s.mem[1][p] = 0 THEN [null |-> TRUE, v |-> <<>>]
    ELSE [null |-> FALSE, v |-> SubSeq(s.mem[3], s.mem[2][p] + 1, s.mem[2][p + 1])]

\* C16: for a variable-length string struct the data buffer (buffer 2) is
\* given the length stored at position offset+length of the offsets buffer,
\* the last offset; and the array imported from buffers with a struct offset
\* exposes the elements from that position on, with the values the buffers
\* hold there.
C16_DataBufferLength ==
    (estruct.present /\ estruct.phys = "Utf8" /\ back.kind # "none") =>
        LET last == estruct.mem[2][estruct.offset + estruct.length + 1] IN
        /\ buffer_len(estruct, 2) = Defined(last)
        /\ back.kind = "ok"
        /\ Len(back.arr.data) = last
        /\ back.arr.length = estruct.length
        /\ \A i \in 1..estruct.length :
              ValueAt(back.arr, i) = ElementOf(estruct, estruct.offset + i)

\* C16 witness: offsets [0, 1, 1, 3] (three elements, one empty) imported
\* with struct offset 1: a data buffer of 3 bytes, and the last 2 elements.
C16_Witness ==
    /\ estruct.present
    /\ estruct.phys = "Utf8"
    /\ estruct.mem[2] = <<0, 1, 1, 3>>
    /\ estruct.offset = 1
    /\ back.kind = "ok"
    /\ Len(back.arr.data) = 3
    /\ back.arr.length = 2
    /\ ValueAt(back.arr, 1).v = <<>>
    /\ Len(ValueAt(back.arr, 2).v) = 2

\* C17 (as stated): the buffer-local element offset is the struct's offset,
\* except 0 for buffer 2 of variable-length string/binary and offset * size
\* for buffer 1 of fixed-size binary, and the buffer that buffer(index)
\* returns starts at that offset of the foreign buffer.
C17_BufferStartsAtOffset ==
    (bcall.op = "buffer" /\ bout.kind = "ok" /\ bcall.len > 0) =>
        LET expected ==
                IF fstruct.phys \in {"Utf8", "LargeUtf8", "Binary", "LargeBinary"}
                   /\ bcall.index = 2 THEN 0
                ELSE IF fstruct.phys = "FixedSizeBinary" /\ bcall.index = 1
                     THEN fstruct.offset * fstruct.size
                ELSE fstruct.offset
        IN  /\ buffer_offset(fstruct, bcall.index) = expected
            /\ bout.data = Window(fstruct, bcall.index, expected, Len(bout.data))

\* C18 (as stated): a misaligned foreign pointer is never reported as an
\* error: buffer(index) and buffer_known_len(index, len) both return a
\* private copy whenever the pointer is not aligned for the element type, and
\* alias the foreign memory only when it is aligned.
C18_MisalignedIsCopied ==
    (/\ bcall.op \in {"buffer", "buffer_known_len"}
     /\ bcall.len > 0
     /\ get_buffer_ptr(fstruct, bcall.index) = "ok"
     /\ bout.kind # "crash")
    => /\ bout.kind = "ok"
       /\ bout.zero_copy <=> bcall.index \notin fstruct.misalignedPtrs

\* C19: splitting an array of n keys at offset k < n yields two arrays of k
\* and n - k keys whose key windows are adjacent, do not overlap and together
\* are the original keys in order, each with the type and the whole values
\* pool of the original.
C19_SplitKeepsPool ==
    [][\A k \in 0..MaxKeys :
          (SplitAt(k) /\ res' = "ok") =>
              LET n == KeysLen(darr.keys)
                  lhs == halves'[1]
                  rhs == halves'[2]
              IN  /\ k < n
                  /\ KeysLen(lhs.keys) = k
                  /\ KeysLen(rhs.keys) = n - k
                  /\ lhs.keys.off = darr.keys.off
                  /\ rhs.keys.off = darr.keys.off + k
                  /\ lhs.keys.values \o rhs.keys.values = darr.keys.values
                  /\ \A i \in 1..n :
                        KeyIsValid(darr.keys, i) =
                            IF i <= k THEN KeyIsValid(lhs.keys, i)
                            ELSE KeyIsValid(rhs.keys, i - k)
                  /\ lhs.values = darr.values /\ rhs.values = darr.values
                  /\ lhs.dtype = darr.dtype /\ rhs.dtype = darr.dtype]_vars

\* C19 witness: two keys split in the middle, over a pool of three values.
C19_Witness ==
    /\ call.op = "split_at"
    /\ res = "ok"
    /\ Len(halves) = 2
    /\ KeysLen(halves[1].keys) = 1
    /\ KeysLen(halves[2].keys) = 1
    /\ halves[2].keys.off = halves[1].keys.off + 1
    /\ halves[1].values.len = 3
    /\ halves[2].values = halves[1].values

\* C20: slice, slice_unchecked, set_validity and with_validity leave the
\* values pool and the type descriptor as they were, and after
\* slice(offset, length) with offset + length <= len() the array has
\* `length` keys.
C20_OnlyKeysChange ==
    [][/\ \A o, l \in 0..(MaxKeys + 1) :
            (Slice(o, l) \/ SliceUnchecked(o, l)) =>
                /\ darr'.values = darr.values
                /\ darr'.dtype = darr.dtype
                /\ (o + l <= KeysLen(darr.keys)) =>
                       (res' = "ok" /\ KeysLen(darr'.keys) = l)
       /\ \A n \in 0..MaxKeys : \A v \in Validities(n) :
            SetValidity(v) =>
                /\ darr'.values = darr.values
                /\ darr'.dtype = darr.dtype
                /\ darr'.keys.values = darr.keys.values]_vars

\* C20 witness: an array of two keys over three values was sliced down to
\* its second key.
C20_Witness ==
    /\ call.op = "slice"
    /\ res = "ok"
    /\ darr.present
    /\ KeysLen(darr.keys) = 1
    /\ darr.keys.off = 1
    /\ darr.values.len = 3

C22_DictionaryNoneFailsOrViews ==
    (ccall.op = "dictionary") =>
        /\ cout.kind = "none" <=> cstruct.dtype.kind # "Dictionary"
        /\ cstruct.dtype.kind = "Dictionary" =>
              IF cstruct.array.dictionary = <<>>
              THEN cout.kind = "err"
              ELSE cout = [kind |-> "ok", array |-> cstruct.array.dictionary[1],
                           dtype |-> cstruct.dtype.values]

\* C22 witness: a dictionary-encoded struct with a dictionary gave a view
\* typed Utf8.
C22_Witness ==
    /\ ccall.op = "dictionary"
    /\ cstruct.dtype = DType("Dictionary", <<>>, "Utf8")
    /\ cout = [kind |-> "ok", array |-> DictStruct, dtype |-> "Utf8"]

\* the number of buffers of the layout of an array: validity and values (or
\* offsets, keys, views), the data of a string array, the data buffers of a
\* view-encoded array
LayoutBuffers(a) ==
    IF a.phys = "Utf8" THEN 3
    ELSE IF a.phys \in ViewTypes THEN 2 + Len(a.chunks)
    ELSE 2

\* C23: the struct exported from a native array has the array's length and
\* null count, as many buffers as the array's layout plus exactly one when the
\* array is view-encoded, as many children as the array, a dictionary pointer
\* exactly when the array has a dictionary, and a release callback.
C23_ExportedFields ==
    estruct.present =>
        /\ estruct.length = native.length
        /\ estruct.null_count = native.null_count
        /\ estruct.n_buffers =
              LayoutBuffers(native) + (IF native.phys \in ViewTypes THEN 1 ELSE 0)
        /\ estruct.n_children = (IF native.phys = "List" THEN Len(native.child) ELSE 0)
        /\ (estruct.dictionary # <<>>) <=> native.phys = "Dictionary"
        /\ estruct.release

\* C23 witness: a Utf8View array with nulls over two data buffers was
\* exported with five buffers, the last the table of the two lengths.
C23_Witness ==
    /\ estruct.present
    /\ native.phys = "Utf8View"
    /\ Len(native.chunks) = 2
    /\ native.null_count > 0
    /\ estruct.n_buffers = 5
    /\ estruct.mem[5] = native.chunks

\* C24: a successful cast of a List column to List(T') with T' different from
\* its inner type returns a column of dtype exactly List(T'), of one chunk
\* whose offsets and row validity are those of the rechunked input and whose
\* inner values are the input's inner values cast to T'.
C24_ListCastKeepsShape ==
    (/\ castCall.op = "cast_with_options"
     /\ col.dtype.kind = "List"
     /\ castCall.dtype.t # col.dtype.t
     /\ castOut.kind = "ok")
    => LET arr == rechunk(col.chunks)
           inner == compute_cast(NumArr(arr.values, arr.ivalid), castCall.dtype.t,
                                 Wrapped(castCall.options))
       IN  /\ castOut.dtype = List(castCall.dtype.t)
           /\ Len(castOut.chunks) = 1
           /\ castOut.chunks[1].offsets = arr.offsets
           /\ castOut.chunks[1].offsets =
                 [k \in 1..(Len(Concat(col.chunks, "valid")) + 1) |->
                     SumOver([i \in DOMAIN col.chunks |-> Len(col.chunks[i].values)], k - 1)]
           /\ castOut.chunks[1].valid = Concat(col.chunks, "valid")
           /\ castOut.chunks[1].values = inner.values
           /\ castOut.chunks[1].ivalid = inner.valid

\* C24 witness: a List(Int16) column of two chunks, a null row and a row of
\* two values, was cast to List(Float64) in Strict mode.
C24_Witness ==
    /\ castCall = [op |-> "cast_with_options", dtype |-> List("Float64"), options |-> "Strict"]
    /\ col.dtype = List("Int16")
    /\ Len(col.chunks) = 2
    /\ castOut.kind = "ok"
    /\ castOut.dtype = List("Float64")
    /\ castOut.chunks[1].valid = <<FALSE, TRUE>>
    /\ castOut.chunks[1].values = <<256, 256>>

\* a non-null value of the column that the target type cannot hold
Unrepresentable(chunk, i, t) == chunk.valid[i] /\ ~Representable(chunk.values[i], t)

\* C25: cast_chunks fails, with "strict cast failed", exactly in Strict mode
\* when some chunk holds a non-null value the target type cannot represent
\* (the cast chunk's null count differs from the input's); in NonStrict mode it
\* succeeds and such a value becomes null; in Overflowing mode it succeeds and
\* such a value wraps.
C25_OnlyStrictRaises ==
    (castCall.op = "cast_chunks") =>
        LET t == castCall.dtype.t
            overflow == \E c \in DOMAIN col.chunks : \E i \in DOMAIN col.chunks[c].values :
                            Unrepresentable(col.chunks[c], i, t)
        IN  /\ castOut.kind = "err" <=> (castCall.options = "Strict" /\ overflow)
            /\ castOut.kind = "ok" =>
                  /\ Len(castOut.chunks) = Len(col.chunks)
                  /\ \A c \in DOMAIN col.chunks : \A i \in DOMAIN col.chunks[c].values :
                        IF Unrepresentable(col.chunks[c], i, t)
                        THEN IF castCall.options = "NonStrict"
                             THEN ~castOut.chunks[c].valid[i]
                             ELSE /\ castCall.options = "Overflowing"
                                  /\ castOut.chunks[c].valid[i]
                                  /\ castOut.chunks[c].values[i] =
                                        WrapTo(col.chunks[c].values[i], t)
                        ELSE /\ castOut.chunks[c].valid[i] = col.chunks[c].valid[i]
                             /\ castOut.chunks[c].values[i] = col.chunks[c].values[i]

\* C25 witness: the cast of 256 to UInt8 failed in Strict mode.
C25_Witness ==
    /\ castCall = [op |-> "cast_chunks", dtype |-> Numeric("UInt8"), options |-> "Strict"]
    /\ \E c \in DOMAIN col.chunks : \E i \in DOMAIN col.chunks[c].values :
          col.chunks[c].valid[i] /\ col.chunks[c].values[i] = 256
    /\ castOut.kind = "err"

\* C29: whenever a cast of a numeric column returns a column carrying a sorted
\* flag, the rows of that column are sorted in that order.
C29_SortedFlagIsTrue ==
    (/\ castCall.op \in {"cast_with_options", "cast_unchecked"}
     /\ col.dtype.kind = "Numeric"
     /\ castOut.kind = "ok"
     /\ castOut.sorted # "Not")
    => /\ castOut.sorted = col.sorted
       /\ IsSorted(castOut.chunks, castOut.sorted)

\* C26: buffer(2) on a variable-length string/binary struct whose buffers
\* array pointer is null, which declares fewer than 2 buffers, or whose
\* offsets pointer is null, reads nothing through them and returns a
\* recoverable failure.
C26_ChecksBeforeReads ==
    (/\ bcall.op = "buffer"
     /\ bcall.index = 2
     /\ HasDataBuffer(fstruct.phys)
     /\ \/ fstruct.buffers = "null"
        \/ fstruct.n_buffers < 2
        \/ 1 \in fstruct.nullPtrs)
    => bout.kind = "err"

\* C27: validity() and bitmap(index) return a bitmap or a recoverable
\* failure, and never panic, whatever the struct's length and offset are.
C27_BitmapNeverPanics ==
    (bcall.op \in {"validity", "bitmap"}) => vout.kind \in {"ok", "err"}

\* C28: the bitmap validity() returns records a null count between 0 and its
\* length, whatever the struct's null_count field is.
C28_NullCountWithinLength ==
    (bcall.op = "validity" /\ vout.kind = "ok" /\ vout.has) =>
        (0 <= vout.null_count /\ vout.null_count <= vout.len)

\* C30: find_flags reports multiple_columns = true for every expression that
\* holds a Columns node, a DtypeColumn node or an IndexColumn node of more than
\* one index, whatever its other nodes are and in whatever order they are
\* visited.
C30_MultipleColumnsReported ==
    (/\ fres = "ok"
     /\ \E i \in DOMAIN fexpr :
           \/ fexpr[i].kind \in {"Columns", "DtypeColumn"}
           \/ fexpr[i].kind = "IndexColumn" /\ fexpr[i].n > 1)
    => flags.multiple_columns

====
